---- MODULE Spec2Model ----
(***************************************************************************)
(* Model of the credential store and authenticator of credential_playground *)
(* (src/src/auth_utils.rs).                                                 *)
(*                                                                          *)
(* Text is modelled as a sequence of one-character strings, so that the     *)
(* splitting, formatting and parsing the code performs are computed and     *)
(* not assumed.  Bytes are naturals in 0..255.  A 32-bit word is a pair     *)
(* <<hi, lo>> of 16-bit halves, all additions wrapping modulo 2^32.         *)
(***************************************************************************)
EXTENDS Integers, Sequences, FiniteSets, TLC

(***************************************************************************)
(* Text helpers                                                             *)
(***************************************************************************)
LF == "\n"
CR == "\r"
\* one byte that is not valid UTF-8 (0xFF) when it occurs in the backing file
BADBYTE == "\\xff"

RECURSIVE Concat(_)
\* concatenation of a sequence of texts
Concat(ss) == IF ss = <<>> THEN <<>> ELSE Head(ss) \o Concat(Tail(ss))

\* index of the first occurrence of character d in s, 0 when there is none
IndexOf(s, d) ==
    IF \E i \in 1..Len(s) : s[i] = d
    THEN CHOOSE i \in 1..Len(s) : s[i] = d /\ \A j \in 1..(i - 1) : s[j] # d
    ELSE 0

\* str::split_once(":"): <<TRUE, before, after>> at the first delimiter,
\* <<FALSE, <<>>, <<>>>> (None) when the delimiter does not occur
split_once(s, d) ==
    LET i == IndexOf(s, d)
    IN IF i = 0 THEN <<FALSE, <<>>, <<>>>>
       ELSE <<TRUE, SubSeq(s, 1, i - 1), SubSeq(s, i + 1, Len(s))>>

RECURSIVE split_skip_empty(_, _)
\* variant of split: empty fields are left out
split_skip_empty(s, d) ==
    LET i == IndexOf(s, d)
    IN IF i = 0 THEN IF s = <<>> THEN <<>> ELSE <<s>>
       ELSE IF i = 1 THEN split_skip_empty(SubSeq(s, 2, Len(s)), d)
       ELSE <<SubSeq(s, 1, i - 1)>> \o split_skip_empty(SubSeq(s, i + 1, Len(s)), d)

RECURSIVE split(_, _)
\* str::split("$"): every field between delimiters, empty fields included
split(s, d) ==
    LET i == IndexOf(s, d)
    IN IF i = 0 THEN <<s>>
       ELSE <<SubSeq(s, 1, i - 1)>> \o split(SubSeq(s, i + 1, Len(s)), d)

RECURSIVE raw_lines(_)
\* the segments BufRead::read_line returns, line feed included when present
raw_lines(data) ==
    IF data = <<>> THEN <<>>
    ELSE LET i == IndexOf(data, LF)
         IN IF i = 0 THEN <<data>>
            ELSE <<SubSeq(data, 1, i)>> \o raw_lines(SubSeq(data, i + 1, Len(data)))

\* BufRead::lines on one segment: a trailing "\n" is removed, and a "\r"
\* right before it; invalid UTF-8 gives Err.  Result <<ok, text>>.
line_item(seg) ==
    LET n == Len(seg)
        body == IF n > 0 /\ seg[n] = LF
                THEN IF n > 1 /\ seg[n - 1] = CR THEN SubSeq(seg, 1, n - 2)
                     ELSE SubSeq(seg, 1, n - 1)
                ELSE seg
    IN IF \E i \in 1..n : seg[i] = BADBYTE THEN <<FALSE, <<>>>> ELSE <<TRUE, body>>

\* reader.lines(): the sequence of Result<String> items of a file
lines(data) == LET segs == raw_lines(data) IN [i \in 1..Len(segs) |-> line_item(segs[i])]

\* every ordering of a finite set, as sequences without repetition
Orderings(S) ==
    {f \in [1..Cardinality(S) -> S] : \A i, j \in 1..Cardinality(S) : i # j => f[i] # f[j]}

\* Option<T>: Some(x) is <<x>>, None is <<>>
Some(x) == <<x>>
None == <<>>

(***************************************************************************)
(* UserCredentials: the in-memory map and its backing file                  *)
(***************************************************************************)
\* an empty HashMap
EmptyMap == [u \in {} |-> <<>>]

\* HashMap::insert
MapInsert(m, k, v) == [x \in (DOMAIN m) \cup {k} |-> IF x = k THEN v ELSE m[x]]

\* HashMap::remove
MapRemove(m, k) == [x \in (DOMAIN m) \ {k} |-> m[x]]

RECURSIVE parse_records_last_wins(_, _)
\* variant of parse_records: a later record of a name replaces the earlier one
parse_records_last_wins(items, ret_val) ==
    IF items = <<>> THEN ret_val
    ELSE LET record == Head(items)
             sp == split_once(record[2], ":")
         IN IF record[1] /\ sp[1]
            THEN parse_records_last_wins(Tail(items), MapInsert(ret_val, sp[2], sp[3]))
            ELSE parse_records_last_wins(Tail(items), ret_val)

RECURSIVE parse_records(_, _)
\* the loop of read_disk over the line items, first occurrence of a name wins
parse_records(items, ret_val) ==
    IF items = <<>> THEN ret_val
    ELSE LET record == Head(items)
             sp == split_once(record[2], ":")
         IN IF ~record[1] THEN parse_records(Tail(items), ret_val)
            ELSE IF sp[1]
                 THEN IF sp[2] \in DOMAIN ret_val
                      THEN parse_records(Tail(items), ret_val)
                      ELSE parse_records(Tail(items), MapInsert(ret_val, sp[2], sp[3]))
                 ELSE parse_records(Tail(items), ret_val)

\* variant of read_disk: a line without delimiter makes the whole load fail
read_disk_all_or_nothing(file, open_ok) ==
    IF ~open_ok THEN EmptyMap
    ELSE IF \E i \in 1..Len(lines(file.data)) :
               lines(file.data)[i][1] /\ ~split_once(lines(file.data)[i][2], ":")[1]
         THEN EmptyMap
         ELSE parse_records(lines(file.data), EmptyMap)

\* read_disk: the map loaded from a file; open_ok is the result of File::open
read_disk(file, open_ok) ==
    IF ~open_ok THEN EmptyMap ELSE parse_records(lines(file.data), EmptyMap)

\* variant of write_buf: records are not terminated by a line feed
write_buf_unterminated(m, order) ==
    Concat([i \in 1..Len(order) |-> order[i] \o <<":">> \o m[order[i]]])

\* the buffer write_disk builds, for the key order list_users returned
write_buf(m, order) ==
    Concat([i \in 1..Len(order) |-> order[i] \o <<":">> \o m[order[i]] \o <<LF>>])

(***************************************************************************)
(* 32-bit words as <<hi, lo>> pairs of 16-bit halves                        *)
(***************************************************************************)
\* F applied to the value of x: the bound variable makes the evaluation of x
\* complete before F starts, as a statement sequence does
Then(x, F(_)) == CHOOSE r \in {F(y) : y \in {x}} : TRUE

RECURSIVE Pow2(_)
Pow2(n) == IF n = 0 THEN 1 ELSE 2 * Pow2(n - 1)

RECURSIVE BitXor(_, _)
\* bitwise exclusive or of two naturals
BitXor(x, y) ==
    IF x = 0 THEN y
    ELSE IF y = 0 THEN x
    ELSE (((x % 2) + (y % 2)) % 2) + 2 * BitXor(x \div 2, y \div 2)

RECURSIVE BitAnd(_, _)
\* bitwise and of two naturals
BitAnd(x, y) ==
    IF x = 0 \/ y = 0 THEN 0
    ELSE (x % 2) * (y % 2) + 2 * BitAnd(x \div 2, y \div 2)

\* u32 ^, &, !
w_xor(a, b) == <<BitXor(a[1], b[1]), BitXor(a[2], b[2])>>
w_and(a, b) == <<BitAnd(a[1], b[1]), BitAnd(a[2], b[2])>>
w_not(a) == <<65535 - a[1], 65535 - a[2]>>

\* variant of rotate_right: the bits shifted out are dropped
rotate_right_dropping(w, n) ==
    LET s == IF n >= 16 THEN <<0, w[1]>> ELSE w
        m == n % 16
        p == Pow2(m)
        q == Pow2(16 - m)
    IN IF m = 0 THEN s
       ELSE <<s[1] \div p, (s[2] \div p) + (s[1] % p) * q>>

\* u32::rotate_right by n in 0..31
rotate_right(w, n) ==
    LET s == IF n >= 16 THEN <<w[2], w[1]>> ELSE w
        m == n % 16
        p == Pow2(m)
        q == Pow2(16 - m)
    IN IF m = 0 THEN s
       ELSE <<(s[1] \div p) + (s[2] % p) * q, (s[2] \div p) + (s[1] % p) * q>>

\* u32 >> n for n in 1..15
w_shr(w, n) ==
    LET p == Pow2(n)
        q == Pow2(16 - n)
    IN <<w[1] \div p, (w[2] \div p) + (w[1] % p) * q>>

\* u32::wrapping_add: the sum modulo 2^32
wrapping_add(a, b) ==
    LET lo == a[2] + b[2]
        hi == a[1] + b[1] + (lo \div 65536)
    IN <<hi % 65536, lo % 65536>>

\* u32::from_be_bytes and u32::to_be_bytes
from_be_bytes(b) == <<b[1] * 256 + b[2], b[3] * 256 + b[4]>>
to_be_bytes(w) == <<w[1] \div 256, w[1] % 256, w[2] \div 256, w[2] % 256>>

\* variant of u64_to_be_bytes: the length is written as a 32-bit number
u32_to_be_bytes(L) ==
    <<(L \div 16777216) % 256, (L \div 65536) % 256, (L \div 256) % 256, L % 256>>

\* u64::to_be_bytes of a length in bits; lengths here stay below 2^31, so
\* the four high bytes are zero
u64_to_be_bytes(L) ==
    <<0, 0, 0, 0, (L \div 16777216) % 256, (L \div 65536) % 256, (L \div 256) % 256, L % 256>>

(***************************************************************************)
(* sha256                                                                   *)
(***************************************************************************)
SHA_H_INITIAL == <<
    <<27145, 58983>>, <<47975, 44677>>, <<15470, 62322>>, <<42319, 62778>>,
    <<20750, 21119>>, <<39685, 26764>>, <<8067, 55723>>, <<23520, 52505>>>>

SHA_K_INITIAL == <<
    <<17034, 12184>>, <<28983, 17553>>, <<46528, 64463>>, <<59829, 56229>>,
    <<14678, 49755>>, <<23025, 4593>>, <<37439, 33444>>, <<43804, 24277>>,
    <<55303, 43672>>, <<4739, 23297>>, <<9265, 34238>>, <<21772, 32195>>,
    <<29374, 23924>>, <<32990, 45566>>, <<39900, 1703>>, <<49563, 61812>>,
    <<58523, 27073>>, <<61374, 18310>>, <<4033, 40390>>, <<9228, 41420>>,
    <<11753, 11375>>, <<19060, 33962>>, <<23728, 43484>>, <<30457, 35034>>,
    <<38974, 20818>>, <<43057, 50797>>, <<45059, 10184>>, <<48985, 32711>>,
    <<50912, 3059>>, <<54695, 37191>>, <<1738, 25425>>, <<5161, 10599>>,
    <<10167, 2693>>, <<11803, 8504>>, <<19756, 28156>>, <<21304, 3347>>,
    <<25866, 29524>>, <<30314, 2747>>, <<33218, 51502>>, <<37490, 11397>>,
    <<41663, 59553>>, <<43034, 26187>>, <<49739, 35696>>, <<51052, 20899>>,
    <<53650, 59417>>, <<54937, 1572>>, <<62478, 13701>>, <<4202, 41072>>,
    <<6564, 49430>>, <<7735, 27656>>, <<10056, 30540>>, <<13488, 48309>>,
    <<14620, 3251>>, <<20184, 43594>>, <<23452, 51791>>, <<26670, 28659>>,
    <<29839, 33518>>, <<30885, 25455>>, <<33992, 30740>>, <<36039, 520>>,
    <<37054, 65530>>, <<42064, 27883>>, <<48889, 41975>>, <<50801, 30962>>>>

\* variant of pad_zeros: zero bytes are pushed until the block is full
pad_zeros_to_block(message) ==
    LET k == CHOOSE n \in 0..63 : (Len(message) + n) % 64 = 0
    IN message \o [i \in 1..k |-> 0]

\* while message.len() % 64 != 56 { message.push(0) }: the loop pushes the
\* least number of zero bytes that brings the length to 56 modulo 64
pad_zeros(message) ==
    LET k == CHOOSE n \in 0..63 : (Len(message) + n) % 64 = 56
    IN message \o [i \in 1..k |-> 0]

\* the pre-processing of sha256: 0x80, zero bytes, 64-bit big-endian bit length
sha_pad(message) ==
    pad_zeros(Append(message, 128)) \o u64_to_be_bytes(Len(message) * 8)

\* one iteration of `for i in 16..64` (i is 1-based here): word i appended
sha_extend_step(w, i) ==
    LET s0 == w_xor(w_xor(rotate_right(w[i - 15], 7), rotate_right(w[i - 15], 18)),
                    w_shr(w[i - 15], 3))
        s1 == w_xor(w_xor(rotate_right(w[i - 2], 17), rotate_right(w[i - 2], 19)),
                    w_shr(w[i - 2], 10))
    IN Append(w, wrapping_add(w[i - 16], wrapping_add(s0, wrapping_add(w[i - 7], s1))))

RECURSIVE sha_extend(_, _, _)
\* the message schedule: iterations lo..hi of the extension loop, in order
sha_extend(w, lo, hi) ==
    IF lo > hi THEN w
    ELSE IF lo = hi THEN sha_extend_step(w, lo)
    ELSE LET mid == (lo + hi) \div 2
         IN Then(sha_extend(w, lo, mid), LAMBDA w1 : sha_extend(w1, mid + 1, hi))

\* one iteration of the compression loop over v = <<a, b, c, d, e, f, g, h>>
sha_round(v, w, i) ==
    LET a == v[1]
        b == v[2]
        c == v[3]
        e == v[5]
        f == v[6]
        g == v[7]
        s1 == w_xor(w_xor(rotate_right(e, 6), rotate_right(e, 11)), rotate_right(e, 25))
        ch == w_xor(w_and(e, f), w_and(w_not(e), g))
        s0 == w_xor(w_xor(rotate_right(a, 2), rotate_right(a, 13)), rotate_right(a, 22))
        maj == w_xor(w_xor(w_and(a, b), w_and(a, c)), w_and(b, c))
        temp2 == wrapping_add(s0, maj)
    IN Then(wrapping_add(v[8], wrapping_add(s1, wrapping_add(ch,
                wrapping_add(SHA_K_INITIAL[i], w[i])))),
            LAMBDA temp1 :
                <<wrapping_add(temp1, temp2), a, b, c, wrapping_add(v[4], temp1), e, f, g>>)

RECURSIVE sha_rounds(_, _, _, _)
\* iterations lo..hi of the compression loop, in order
sha_rounds(v, w, lo, hi) ==
    IF lo > hi THEN v
    ELSE IF lo = hi THEN sha_round(v, w, lo)
    ELSE LET mid == (lo + hi) \div 2
         IN Then(sha_rounds(v, w, lo, mid), LAMBDA v1 : sha_rounds(v1, w, mid + 1, hi))

\* the sixteen big-endian words of a 64-byte chunk
chunk_words(chunk) ==
    <<from_be_bytes(SubSeq(chunk, 1, 4)), from_be_bytes(SubSeq(chunk, 5, 8)),
                 from_be_bytes(SubSeq(chunk, 9, 12)), from_be_bytes(SubSeq(chunk, 13, 16)),
                 from_be_bytes(SubSeq(chunk, 17, 20)), from_be_bytes(SubSeq(chunk, 21, 24)),
                 from_be_bytes(SubSeq(chunk, 25, 28)), from_be_bytes(SubSeq(chunk, 29, 32)),
                 from_be_bytes(SubSeq(chunk, 33, 36)), from_be_bytes(SubSeq(chunk, 37, 40)),
                 from_be_bytes(SubSeq(chunk, 41, 44)), from_be_bytes(SubSeq(chunk, 45, 48)),
                 from_be_bytes(SubSeq(chunk, 49, 52)), from_be_bytes(SubSeq(chunk, 53, 56)),
                 from_be_bytes(SubSeq(chunk, 57, 60)), from_be_bytes(SubSeq(chunk, 61, 64))>>

\* the hash values hs with the working variables v added
sha_add(hs, v) ==
    <<wrapping_add(hs[1], v[1]), wrapping_add(hs[2], v[2]),
      wrapping_add(hs[3], v[3]), wrapping_add(hs[4], v[4]),
      wrapping_add(hs[5], v[5]), wrapping_add(hs[6], v[6]),
      wrapping_add(hs[7], v[7]), wrapping_add(hs[8], v[8])>>

\* one 64-byte chunk folded into the hash values hs
sha_chunk(hs, chunk) ==
    Then(chunk_words(chunk), LAMBDA w16 :
    Then(sha_extend(w16, 17, 64), LAMBDA w :
    Then(sha_rounds(hs, w, 1, 64), LAMBDA v : sha_add(hs, v))))

RECURSIVE sha_chunks(_, _)
\* message.chunks_exact(64): whole chunks only, a shorter remainder is dropped
sha_chunks(hs, message) ==
    IF Len(message) < 64 THEN hs
    ELSE Then(sha_chunk(hs, SubSeq(message, 1, 64)), LAMBDA hs1 :
         Then(SubSeq(message, 65, Len(message)), LAMBDA rest : sha_chunks(hs1, rest)))

\* the body of sha256: the 32-byte digest of a byte sequence
sha256_compute(message) ==
    Then(sha_pad(message), LAMBDA padded :
    Then(sha_chunks(SHA_H_INITIAL, padded), LAMBDA hs :
        to_be_bytes(hs[1]) \o to_be_bytes(hs[2]) \o to_be_bytes(hs[3]) \o to_be_bytes(hs[4])
        \o to_be_bytes(hs[5]) \o to_be_bytes(hs[6]) \o to_be_bytes(hs[7]) \o to_be_bytes(hs[8])))

(***************************************************************************)
(* Text and byte conversions                                                *)
(***************************************************************************)
\* the printable ASCII characters in code order, from 32 (space) to 126 (~);
\* code 96, the grave accent, is written "<grave>"
ASCII_PRINTABLE ==
    <<" ", "!", "\"", "#", "$", "%", "&", "'", "(", ")", "*", "+", ",", "-", ".", "/",
      "0", "1", "2", "3", "4", "5", "6", "7", "8", "9", ":", ";", "<", "=", ">", "?",
      "@", "A", "B", "C", "D", "E", "F", "G", "H", "I", "J", "K", "L", "M", "N", "O",
      "P", "Q", "R", "S", "T", "U", "V", "W", "X", "Y", "Z", "[", "\\", "]", "^", "_",
      "<grave>", "a", "b", "c", "d", "e", "f", "g", "h", "i", "j", "k", "l", "m", "n", "o",
      "p", "q", "r", "s", "t", "u", "v", "w", "x", "y", "z", "{", "|", "}", "~">>

\* the UTF-8 byte of an ASCII character
char_byte(c) ==
    IF c = LF THEN 10
    ELSE IF c = CR THEN 13
    ELSE 31 + IndexOf(ASCII_PRINTABLE, c)

\* str::as_bytes for ASCII text
as_bytes(s) == [i \in 1..Len(s) |-> char_byte(s[i])]

DIGITS == <<"0", "1", "2", "3", "4", "5", "6", "7", "8", "9">>

RECURSIVE format_usize(_)
\* format!("{}", n) of an unsigned integer: decimal, no sign, no leading zero
format_usize(n) ==
    IF n < 10 THEN <<DIGITS[n + 1]>>
    ELSE Append(format_usize(n \div 10), DIGITS[(n % 10) + 1])

RECURSIVE digits_value(_)
\* the value of a non-empty text of decimal digits
digits_value(s) ==
    IF Len(s) = 1 THEN IndexOf(DIGITS, s[1]) - 1
    ELSE digits_value(SubSeq(s, 1, Len(s) - 1)) * 10 + (IndexOf(DIGITS, s[Len(s)]) - 1)

\* str::parse::<usize>: an optional "+", then one or more decimal digits;
\* <<TRUE, n>> or <<FALSE, 0>>.  Texts here have at most 9 digits, so the
\* value always fits a usize.
parse_usize(s) ==
    LET body == IF Len(s) > 1 /\ s[1] = "+" THEN Tail(s) ELSE s
    IN IF body # <<>> /\ \A i \in 1..Len(body) : IndexOf(DIGITS, body[i]) # 0
       THEN <<TRUE, digits_value(body)>>
       ELSE <<FALSE, 0>>

\* the alphabet of base64::engine::general_purpose::STANDARD
B64_ALPHABET ==
    <<"A", "B", "C", "D", "E", "F", "G", "H", "I", "J", "K", "L", "M", "N", "O", "P",
      "Q", "R", "S", "T", "U", "V", "W", "X", "Y", "Z", "a", "b", "c", "d", "e", "f",
      "g", "h", "i", "j", "k", "l", "m", "n", "o", "p", "q", "r", "s", "t", "u", "v",
      "w", "x", "y", "z", "0", "1", "2", "3", "4", "5", "6", "7", "8", "9", "+", "/">>

b64_char(v) == B64_ALPHABET[v + 1]
b64_value(c) == IndexOf(B64_ALPHABET, c) - 1

RECURSIVE base64_encode(_)
\* STANDARD.encode: three bytes to four characters, "=" padding at the end
base64_encode(data) ==
    IF data = <<>> THEN <<>>
    ELSE IF Len(data) = 1
    THEN <<b64_char(data[1] \div 4), b64_char((data[1] % 4) * 16), "=", "=">>
    ELSE IF Len(data) = 2
    THEN <<b64_char(data[1] \div 4), b64_char((data[1] % 4) * 16 + (data[2] \div 16)),
           b64_char((data[2] % 16) * 4), "=">>
    ELSE <<b64_char(data[1] \div 4), b64_char((data[1] % 4) * 16 + (data[2] \div 16)),
           b64_char((data[2] % 16) * 4 + (data[3] \div 64)), b64_char(data[3] % 64)>>
         \o base64_encode(SubSeq(data, 4, Len(data)))

RECURSIVE b64_decode_groups(_)
\* the bytes of a text of whole four-character groups, the last one possibly padded
b64_decode_groups(s) ==
    IF s = <<>> THEN <<>>
    ELSE LET v1 == b64_value(s[1])
             v2 == b64_value(s[2])
             v3 == b64_value(s[3])
             v4 == b64_value(s[4])
             b1 == v1 * 4 + (v2 \div 16)
             b2 == (v2 % 16) * 16 + (v3 \div 4)
             b3 == (v3 % 4) * 64 + v4
         IN IF s[3] = "=" THEN <<b1>>
            ELSE IF s[4] = "=" THEN <<b1, b2>>
            ELSE <<b1, b2, b3>> \o b64_decode_groups(SubSeq(s, 5, Len(s)))

\* STANDARD.decode: <<TRUE, bytes>>, or <<FALSE, <<>>>> for a DecodeError: a
\* length that is not a multiple of four, a character outside the alphabet,
\* padding that is not one or two "=" at the very end, or non-zero bits
\* after the last byte
base64_decode(s) ==
    LET n == Len(s)
        pad == IF n >= 2 /\ s[n] = "=" /\ s[n - 1] = "=" THEN 2
               ELSE IF n >= 1 /\ s[n] = "=" THEN 1 ELSE 0
        body == SubSeq(s, 1, n - pad)
        well_formed ==
            /\ n % 4 = 0
            /\ \A i \in 1..Len(body) : IndexOf(B64_ALPHABET, body[i]) # 0
            /\ pad = 1 => b64_value(body[Len(body)]) % 4 = 0
            /\ pad = 2 => b64_value(body[Len(body)]) % 16 = 0
    IN IF well_formed THEN <<TRUE, b64_decode_groups(s)>> ELSE <<FALSE, <<>>>>

(***************************************************************************)
(* The shell: constants of shell.rs                                         *)
(***************************************************************************)
NULLUSER == <<>>
ROOT == <<"r", "o", "o", "t">>
P_NONE == 0
P_USER == 1
P_ROOT == 3

\* user and permissions of a session nobody is logged in to
LoggedOut == [user |-> NULLUSER, permissions |-> P_NONE]

(***************************************************************************)
(* State                                                                    *)
(***************************************************************************)
VARIABLES
    disk,             \* the backing file: [exists, data]
    pc,               \* "boot": no store built; "live": a store exists; "panicked";
                      \* "exited": the shell ended
    cred_hashmap,     \* UserCredentials.cred_hashmap, a function on its key set
    overflow_checks,  \* whether the build panics on arithmetic overflow (debug)
    last,             \* the last call made on the store and what it returned
    nops,             \* number of method calls made so far
    env               \* Environment of the shell: [user, permissions]

vars == <<disk, pc, cred_hashmap, overflow_checks, last, nops, env>>

(***************************************************************************)
(* Bounds and input universes                                               *)
(***************************************************************************)
\* method calls on the store in one run
MaxOps == 2
\* lines of the backing file at start
MaxLines == 2
\* lines of the backing file in LoadSpec
MaxLoadLines == 3
\* bytes a failing write may leave in the file
MaxShortWrite == 3
\* reads of the terminal one call of password_input is given
MaxReads == 4
\* command lines given to the shell
MaxCommands == 2
\* length of the longest message given to sha256 directly
MaxMsgLen == 64
\* length of the longest message padded
MaxPadLen == 130
\* largest cost below the usize width that is hashed
MaxCost == 1
\* bytes of a generated salt
SaltLen == 3

Min(a, b) == IF a < b THEN a ELSE b

Passwords == {<<"p">>, <<"q", "2">>}

\* what the random source may put into a salt buffer of n bytes
RandomBytes(n) == {[i \in 1..n |-> 7 * i], [i \in 1..n |-> 255 - i]}

(***************************************************************************)
(* hash_password and authenticate                                           *)
(***************************************************************************)
HASH_VERSION == <<"s", "h", "a", "2", "5", "6", "i", "t", "e", "r", "-", "1">>

\* the width of usize on the 64-bit targets the program is built for
USIZE_BITS == 64

\* the costs hashed: the small ones, and the first that overflows the shift
Costs == (0..MaxCost) \cup {USIZE_BITS}

\* get_salt(Some(num_bytes)) when the random source filled the buffer with bytes
get_salt(bytes) == base64_encode(bytes)

Salts == {get_salt(b) : b \in RandomBytes(SaltLen)}

RECURSIVE sha_table(_, _)
\* the digests of the given messages and of their digests, depth levels deep
sha_table(inputs, depth) ==
    IF depth = 0 THEN {}
    ELSE Then({<<m, sha256_compute(m)>> : m \in inputs}, LAMBDA level :
             level \cup sha_table({e[2] : e \in level}, depth - 1))

\* digests computed once: sha256 is a pure function, so a table of its values
\* on the messages hashed most often stands for repeated calls
SHA_TABLE ==
    sha_table({as_bytes(p) \o b : p \in Passwords, b \in RandomBytes(SaltLen)},
              Pow2(MaxCost))

\* byte sequences given to sha256 directly: empty, one byte, the lengths
\* around the end of the first block, and one of MaxMsgLen bytes of 255
ShaMessages ==
    {[i \in 1..n |-> (37 * i) % 256] : n \in {0, 1, 55, 56}}
    \cup {[i \in 1..MaxMsgLen |-> 255]}

\* their digests, computed once
SHA_SAMPLES == sha_table(ShaMessages, 1)

\* sha256(message)
sha256(message) ==
    Then(message, LAMBDA msg :
        IF \E e \in SHA_TABLE \cup SHA_SAMPLES : e[1] = msg
        THEN (CHOOSE e \in SHA_TABLE \cup SHA_SAMPLES : e[1] = msg)[2]
        ELSE sha256_compute(msg))

\* 1usize << cost: <<TRUE, n>>, or <<FALSE, 0>> for the overflow panic.  A
\* shift by the width or more panics when the build has overflow checks
\* (debug profile) and otherwise shifts by cost modulo the width (release).
shl_one(cost, checks) ==
    IF cost >= USIZE_BITS
    THEN IF checks THEN <<FALSE, 0>> ELSE <<TRUE, Pow2(cost % USIZE_BITS)>>
    ELSE <<TRUE, Pow2(cost)>>

RECURSIVE rehash(_, _, _)
\* for _ in from..n { hash = sha256(hash) }: the body runs for from, .., n-1
rehash(hash, from, n) ==
    IF from >= n THEN hash
    ELSE Then(sha256(hash), LAMBDA h1 : rehash(h1, from + 1, n))

\* the digest hash_password derives: sha256 of password bytes then salt
\* bytes, re-hashed n - 1 times
derive(password, salt_bytes, n) ==
    Then(sha256(as_bytes(password) \o salt_bytes), LAMBDA hash : rehash(hash, 1, n))

\* variant of format_hash: the closing delimiter is left out
format_hash_open_ended(cost, salt, hash) ==
    <<"$">> \o HASH_VERSION \o <<"$">> \o format_usize(cost) \o <<"$">> \o salt \o <<"$">>
    \o base64_encode(hash)

\* format!("${}${}${}${}$", HASH_VERSION, cost, salt, base64_encode(&hash))
format_hash(cost, salt, hash) ==
    <<"$">> \o HASH_VERSION \o <<"$">> \o format_usize(cost) \o <<"$">> \o salt \o <<"$">>
    \o base64_encode(hash) \o <<"$">>

\* the body of hash_password in a build with or without overflow checks:
\* <<TRUE, text>>, or <<FALSE, <<>>>> when it panics (a salt that is not
\* base64, a shift overflow)
hash_password_compute(password, salt, cost, checks) ==
    LET decoded == base64_decode(salt)
        n == shl_one(cost, checks)
    IN IF ~decoded[1] \/ ~n[1] THEN <<FALSE, <<>>>>
       ELSE <<TRUE, format_hash(cost, salt, derive(password, decoded[2], n[2]))>>

\* results computed once, for the arguments used most often
HASH_TABLE ==
    {<<<<p, s, c, k>>, hash_password_compute(p, s, c, k)>> :
        p \in Passwords, s \in Salts, c \in Costs, k \in BOOLEAN}

\* variant of hash_password: while the store holds records the cost is taken
\* as 0
hash_password_with_store(password, salt, cost) ==
    Then(<<password, salt,
           IF pc = "live" /\ DOMAIN cred_hashmap # {} THEN 0 ELSE cost,
           overflow_checks>>, LAMBDA key :
        IF \E e \in HASH_TABLE : e[1] = key
        THEN (CHOOSE e \in HASH_TABLE : e[1] = key)[2]
        ELSE hash_password_compute(key[1], key[2], key[3], key[4]))

\* hash_password(password, salt, cost) in the build that is running
hash_password(password, salt, cost) ==
    Then(<<password, salt, cost, overflow_checks>>, LAMBDA key :
        IF \E e \in HASH_TABLE : e[1] = key
        THEN (CHOOSE e \in HASH_TABLE : e[1] = key)[2]
        ELSE hash_password_compute(key[1], key[2], key[3], key[4]))

\* results of authenticate: it returns a bool, or the process panics
AUTH_TRUE == "true"
AUTH_FALSE == "false"
AUTH_PANIC == "panic"

\* HashMap::get and HashMap::contains_key
get(m, username) == IF username \in DOMAIN m THEN Some(m[username]) ELSE None
contains(m, username) == username \in DOMAIN m

\* variant of authenticate: one field skipped instead of two, so the tag is
\* read as the cost and the cost as the salt
authenticate_skip_one(m, username, password) ==
    IF ~contains(m, username) THEN "false"
    ELSE LET entry_string == get(m, username)[1]
             entry_iter == split(entry_string, "$")
             cost == IF Len(entry_iter) >= 2 THEN parse_usize(entry_iter[2]) ELSE <<FALSE, 0>>
             hash == hash_password(password, entry_iter[3], cost[2])
         IN IF Len(entry_iter) < 2 THEN "panic"
            ELSE IF ~cost[1] THEN "panic"
            ELSE IF Len(entry_iter) < 3 THEN "panic"
            ELSE IF ~hash[1] THEN "panic"
            ELSE IF hash[2] = entry_string THEN "true" ELSE "false"

\* variant of authenticate: the record of the username is unwrapped
authenticate_unwrap_record(m, username, password) ==
    IF ~contains(m, username) THEN "panic"
    ELSE LET entry_string == get(m, username)[1]
             entry_iter == split(entry_string, "$")
             cost == IF Len(entry_iter) >= 3 THEN parse_usize(entry_iter[3]) ELSE <<FALSE, 0>>
             hash == hash_password(password, entry_iter[4], cost[2])
         IN IF Len(entry_iter) < 3 THEN "panic"
            ELSE IF ~cost[1] THEN "panic"
            ELSE IF Len(entry_iter) < 4 THEN "panic"
            ELSE IF ~hash[1] THEN "panic"
            ELSE IF hash[2] = entry_string THEN "true" ELSE "false"

\* variant of authenticate: only the digest fields are compared
authenticate_digest_only(m, username, password) ==
    IF ~contains(m, username) THEN "false"
    ELSE LET entry_string == get(m, username)[1]
             entry_iter == split(entry_string, "$")
             cost == IF Len(entry_iter) >= 3 THEN parse_usize(entry_iter[3]) ELSE <<FALSE, 0>>
             hash == hash_password(password, entry_iter[4], cost[2])
         IN IF Len(entry_iter) < 3 THEN "panic"
            ELSE IF ~cost[1] THEN "panic"
            ELSE IF Len(entry_iter) < 4 THEN "panic"
            ELSE IF ~hash[1] THEN "panic"
            ELSE IF Len(entry_iter) >= 5 /\ split(hash[2], "$")[5] = entry_iter[5]
                 THEN "true" ELSE "false"

\* UserCredentials::authenticate on the map m
authenticate(m, username, password) ==
    IF ~contains(m, username) THEN AUTH_FALSE
    ELSE LET entry_string == get(m, username)[1]
             entry_iter == split(entry_string, "$")
             cost == IF Len(entry_iter) >= 3 THEN parse_usize(entry_iter[3]) ELSE <<FALSE, 0>>
             hash == hash_password(password, entry_iter[4], cost[2])
         IN IF Len(entry_iter) < 3 THEN AUTH_PANIC        \* "Failed to unwrap slice"
            ELSE IF ~cost[1] THEN AUTH_PANIC              \* "failed to unwrap parse"
            ELSE IF Len(entry_iter) < 4 THEN AUTH_PANIC   \* "failed to unwrap salt"
            ELSE IF ~hash[1] THEN AUTH_PANIC              \* panic inside hash_password
            ELSE IF hash[2] = entry_string THEN AUTH_TRUE ELSE AUTH_FALSE

(***************************************************************************)
(* Operations of UserCredentials                                            *)
(***************************************************************************)
File(data) == [exists |-> TRUE, data |-> data]
NoFile == [exists |-> FALSE, data |-> <<>>]

\* no call yet
NoCall ==
    [op |-> "init", username |-> <<>>, arg |-> <<>>,
     ret_bool |-> FALSE, ret_opt |-> None, ret_list |-> <<>>,
     write_ok |-> FALSE, open_ok |-> FALSE,
     prev_op |-> "", prev_write_ok |-> FALSE,
     salt |-> <<>>, cost |-> 0, calls |-> 0, seen |-> {},
     rng_ok |-> FALSE, num_bytes |-> 0, confirm |-> FALSE, outcome |-> "",
     argc |-> 0, status |-> 0, auth |-> "none", typed |-> <<>>,
     newpw |-> <<>>]

\* the record of a call: what was called, with what, what came back,
\* whether the call before it was a set or remove and that one's write
\* succeeded, and the calls of hash_password made so far, each with its
\* arguments, its result and the map the store held
Call(op, username, arg) ==
    [NoCall EXCEPT !.op = op, !.username = username, !.arg = arg,
                   !.seen = last.seen,
                   !.prev_op = IF last.op \in {"set", "remove"} THEN last.op ELSE "",
                   !.prev_write_ok = last.op \in {"set", "remove"} /\ last.write_ok]

\* variant of fs_write: the file is opened for appending
fs_write_append(buf) ==
    {<<TRUE, File(disk.data \o buf)>>, <<FALSE, disk>>}

\* std::fs::write(path, buf) on the file as it is: <<TRUE, file>> when it
\* succeeds.  When it fails the file is untouched (it could not be opened) or
\* was truncated and holds the first bytes of buf.
fs_write_on(file, buf) ==
    {<<TRUE, File(buf)>>, <<FALSE, file>>}
    \cup {<<FALSE, File(SubSeq(buf, 1, k))>> : k \in 0..Min(Len(buf) - 1, MaxShortWrite)}

\* std::fs::write(path, buf) on the backing file
fs_write(buf) == fs_write_on(disk, buf)

\* variant of New: a file that cannot be opened ends the process
New_unwrap_open ==
    /\ pc # "live"
    /\ \E open_ok \in {disk.exists, FALSE} :
          /\ cred_hashmap' = read_disk(disk, open_ok)
          /\ last' = [Call("new", last.username, last.arg) EXCEPT !.open_ok = open_ok]
          /\ pc' = IF open_ok THEN "live" ELSE "panicked"
    /\ UNCHANGED <<disk, overflow_checks, env, nops>>

\* UserCredentials::new(filepath)
New ==
    /\ pc # "live"
    /\ \E open_ok \in {disk.exists, FALSE} :
          /\ cred_hashmap' = read_disk(disk, open_ok)
          /\ last' = [Call("new", last.username, last.arg) EXCEPT !.open_ok = open_ok]
    /\ pc' = "live"
    /\ UNCHANGED <<disk, overflow_checks, env, nops>>

\* the store goes out of scope.  The variable keeps the map the store had;
\* nothing reads it until New replaces it.
Drop ==
    /\ pc = "live"
    /\ pc' = "boot"
    /\ UNCHANGED <<disk, cred_hashmap, overflow_checks, env, last, nops>>

\* write_disk after the map became m: list_users gives the keys in some
\* order, the buffer is built from it and written
write_disk(m, call) ==
    \E order \in Orderings(DOMAIN m) :
       \E w \in fs_write(write_buf(m, order)) :
          /\ disk' = w[2]
          /\ last' = [call EXCEPT !.write_ok = w[1]]

\* variant of Set: the insertion is undone when the write fails
Set_rollback(username, hashword) ==
    /\ pc = "live"
    /\ nops < MaxOps
    /\ \E order \in Orderings(DOMAIN MapInsert(cred_hashmap, username, hashword)) :
         \E w \in fs_write(write_buf(MapInsert(cred_hashmap, username, hashword), order)) :
            /\ disk' = w[2]
            /\ last' = [Call("set", username, hashword) EXCEPT !.write_ok = w[1]]
            /\ cred_hashmap' = IF w[1] THEN MapInsert(cred_hashmap, username, hashword)
                               ELSE cred_hashmap
    /\ nops' = nops + 1
    /\ UNCHANGED <<pc, overflow_checks, env>>

\* UserCredentials::set(username, hashword)
Set(username, hashword) ==
    /\ pc = "live"
    /\ nops < MaxOps
    /\ cred_hashmap' = MapInsert(cred_hashmap, username, hashword)
    /\ write_disk(cred_hashmap', Call("set", username, hashword))
    /\ nops' = nops + 1
    /\ UNCHANGED <<pc, overflow_checks, env>>

\* variant of Remove: returns early, without writing, when the name has no record
Remove_skip_absent(username) ==
    /\ pc = "live"
    /\ nops < MaxOps
    /\ cred_hashmap' = MapRemove(cred_hashmap, username)
    /\ IF username \in DOMAIN cred_hashmap
       THEN write_disk(cred_hashmap', Call("remove", username, <<>>))
       ELSE /\ disk' = disk
            /\ last' = [Call("remove", username, <<>>) EXCEPT !.write_ok = TRUE]
    /\ nops' = nops + 1
    /\ UNCHANGED <<pc, overflow_checks, env>>

\* UserCredentials::remove(username)
Remove(username) ==
    /\ pc = "live"
    /\ nops < MaxOps
    /\ cred_hashmap' = MapRemove(cred_hashmap, username)
    /\ write_disk(cred_hashmap', Call("remove", username, <<>>))
    /\ nops' = nops + 1
    /\ UNCHANGED <<pc, overflow_checks, env>>

\* variant of Get: the name looked up is given an empty record when it has
\* none (HashMap::entry(..).or_default())
Get_or_default(username) ==
    /\ pc = "live"
    /\ nops < MaxOps
    /\ cred_hashmap' = IF username \in DOMAIN cred_hashmap THEN cred_hashmap
                       ELSE MapInsert(cred_hashmap, username, <<>>)
    /\ last' = [Call("get", username, <<>>) EXCEPT !.ret_opt = get(cred_hashmap', username)]
    /\ nops' = nops + 1
    /\ UNCHANGED <<disk, pc, overflow_checks, env>>

\* UserCredentials::get(username)
Get(username) ==
    /\ pc = "live"
    /\ nops < MaxOps
    /\ last' = [Call("get", username, <<>>) EXCEPT !.ret_opt = get(cred_hashmap, username)]
    /\ nops' = nops + 1
    /\ UNCHANGED <<disk, pc, cred_hashmap, overflow_checks, env>>

\* UserCredentials::contains(username)
Contains(username) ==
    /\ pc = "live"
    /\ nops < MaxOps
    /\ last' = [Call("contains", username, <<>>) EXCEPT
                   !.ret_bool = contains(cred_hashmap, username)]
    /\ nops' = nops + 1
    /\ UNCHANGED <<disk, pc, cred_hashmap, overflow_checks, env>>

\* UserCredentials::list_users(): the keys in the map's iteration order
ListUsers ==
    /\ pc = "live"
    /\ nops < MaxOps
    /\ \E order \in Orderings(DOMAIN cred_hashmap) :
          last' = [Call("list_users", <<>>, <<>>) EXCEPT !.ret_list = order]
    /\ nops' = nops + 1
    /\ UNCHANGED <<disk, pc, cred_hashmap, overflow_checks, env>>

\* UserCredentials::authenticate(username, password); a panic ends the process
Authenticate(username, password) ==
    /\ pc = "live"
    /\ nops < MaxOps
    /\ LET r == authenticate(cred_hashmap, username, password)
       IN /\ last' = [Call("authenticate", username, password) EXCEPT
                         !.ret_bool = (r = AUTH_TRUE)]
          /\ pc' = IF r = AUTH_PANIC THEN "panicked" ELSE "live"
    /\ nops' = nops + 1
    /\ UNCHANGED <<disk, cred_hashmap, overflow_checks, env>>

(***************************************************************************)
(* Callers of hash_password                                                 *)
(***************************************************************************)
\* store.set(username, &hash_password(password, &get_salt(..), cost)): a
\* panic in hash_password ends the process before set is called
SetHashed(username, password, salt, cost) ==
    LET h == hash_password(password, salt, cost)
    IN IF h[1] THEN Set(username, h[2])
       ELSE /\ pc = "live"
            /\ nops < MaxOps
            /\ pc' = "panicked"
            /\ last' = Call("hash_password", username, password)
            /\ nops' = nops + 1
            /\ UNCHANGED <<disk, cred_hashmap, overflow_checks, env>>

(***************************************************************************)
(* Calls of the free functions                                              *)
(***************************************************************************)
RECURSIVE rehash_calls(_, _)
\* the calls of sha256 made by for _ in from..n { hash = sha256(hash) }
rehash_calls(from, n) == IF from >= n THEN 0 ELSE 1 + rehash_calls(from + 1, n)

\* the calls of sha256 hash_password has made when it returns or panics: none
\* when the salt does not decode, the seed hash alone when the shift
\* overflows, which is evaluated after it
sha256_calls(salt, cost, checks) ==
    IF ~base64_decode(salt)[1] THEN 0
    ELSE IF ~shl_one(cost, checks)[1] THEN 1
    ELSE 1 + rehash_calls(1, shl_one(cost, checks)[2])

\* hash_password(password, salt, cost) called on its own.  seen keeps the
\* first call made and this one, each with its arguments, its outcome, the
\* map the store held and the number of calls made before it
HashPassword(password, salt, cost) ==
    /\ pc # "panicked"
    /\ nops < MaxOps
    /\ LET h == hash_password(password, salt, cost)
       IN /\ last' = [Call("hash_password", <<>>, password) EXCEPT
                         !.salt = salt, !.cost = cost,
                         !.ret_bool = h[1], !.ret_list = h[2],
                         !.calls = sha256_calls(salt, cost, overflow_checks),
                         !.seen = {r \in last.seen : \A q \in last.seen : r[4] <= q[4]}
                            \cup {<<<<password, salt, cost>>, h,
                                    IF pc = "live" THEN cred_hashmap ELSE EmptyMap,
                                    nops>>}]
          /\ pc' = IF h[1] THEN pc ELSE "panicked"
    /\ nops' = nops + 1
    /\ UNCHANGED <<disk, cred_hashmap, overflow_checks, env>>

\* the assertions of sha256 on the padded length and on the digest length
sha256_asserts(message) ==
    /\ (Len(sha_pad(message)) * 8) % 512 = 0
    /\ Len(sha256(message)) * 8 = 256

\* sha256(message) called on its own
Sha256(message) ==
    /\ pc # "panicked"
    /\ nops < MaxOps
    /\ last' = [Call("sha256", <<>>, message) EXCEPT
                   !.ret_list = sha256(message), !.calls = 1]
    /\ pc' = IF sha256_asserts(message) THEN pc ELSE "panicked"
    /\ nops' = nops + 1
    /\ UNCHANGED <<disk, cred_hashmap, overflow_checks, env>>

\* the pre-processing of sha256 on its own: the padded message
ShaPad(message) ==
    /\ pc # "panicked"
    /\ nops < MaxOps
    /\ last' = [Call("sha_pad", <<>>, message) EXCEPT !.ret_list = sha_pad(message)]
    /\ nops' = nops + 1
    /\ UNCHANGED <<disk, cred_hashmap, overflow_checks, env, pc>>

\* pub const DEF_SALT_LEN: usize = 16
DEF_SALT_LEN == 16

\* OsRng.try_fill_bytes(&mut salt) on the zeroed buffer of n bytes: Ok with
\* the buffer filled, or Err with no byte or all but the last byte filled and
\* the rest as they were
try_fill_bytes(n) ==
    {<<TRUE, b>> : b \in RandomBytes(n)}
    \cup {<<FALSE, [i \in 1..n |-> IF i <= k THEN b[i] ELSE 0]>> :
             b \in RandomBytes(n), k \in {0, n - 1}}

\* variant of GetSalt: the result of try_fill_bytes is dropped and the buffer
\* encoded as it is
GetSalt_ignore_err(num_bytes) ==
    /\ pc # "panicked"
    /\ nops < MaxOps
    /\ LET n == IF num_bytes = None THEN DEF_SALT_LEN ELSE num_bytes[1]
       IN \E r \in try_fill_bytes(n) :
             last' = [Call("get_salt", <<>>, r[2]) EXCEPT
                         !.num_bytes = n, !.rng_ok = r[1],
                         !.ret_bool = TRUE, !.ret_list = get_salt(r[2])]
    /\ nops' = nops + 1
    /\ UNCHANGED <<disk, pc, cred_hashmap, overflow_checks, env>>

\* get_salt(num_bytes) called on its own: arg is the buffer when it returns
\* or panics
GetSalt(num_bytes) ==
    /\ pc # "panicked"
    /\ nops < MaxOps
    /\ LET n == IF num_bytes = None THEN DEF_SALT_LEN ELSE num_bytes[1]
       IN \E r \in try_fill_bytes(n) :
             /\ last' = [Call("get_salt", <<>>, r[2]) EXCEPT
                            !.num_bytes = n, !.rng_ok = r[1],
                            !.ret_bool = r[1],
                            !.ret_list = IF r[1] THEN get_salt(r[2]) ELSE <<>>]
             /\ pc' = IF r[1] THEN pc ELSE "panicked"
    /\ nops' = nops + 1
    /\ UNCHANGED <<disk, cred_hashmap, overflow_checks, env>>

\* prompt_password(..): one read of the terminal, Ok with the line typed or Err
Reads == {<<TRUE, p>> : p \in Passwords} \cup {<<FALSE, <<>>>>}

\* where a call of password_input stands after some reads: returned with a
\* value, panicked in expect, or waiting for the next line
InputResult(outcome, value, reads) ==
    [outcome |-> outcome, value |-> value, reads |-> reads]

\* variant of password_input_confirm: the two entries are not compared
password_input_confirm_unchecked(typed, done) ==
    IF Len(typed) = 0 THEN InputResult("prompting", <<>>, done)
    ELSE IF ~typed[1][1] THEN InputResult("panic", <<>>, done + 1)
    ELSE IF Len(typed) = 1 THEN InputResult("confirming", <<>>, done + 1)
    ELSE IF ~typed[2][1] THEN InputResult("panic", <<>>, done + 2)
    ELSE InputResult("returned", typed[1][2], done + 2)

RECURSIVE password_input_confirm(_, _)
\* loop { inp1 = prompt_password(prompt).expect(..); inp2 = prompt_password(
\* "confirm password: ").expect(..); if inp1 == inp2 { return inp1 } } on the
\* reads typed, after done earlier reads
password_input_confirm(typed, done) ==
    IF Len(typed) = 0 THEN InputResult("prompting", <<>>, done)
    ELSE IF ~typed[1][1] THEN InputResult("panic", <<>>, done + 1)
    ELSE IF Len(typed) = 1 THEN InputResult("confirming", <<>>, done + 1)
    ELSE IF ~typed[2][1] THEN InputResult("panic", <<>>, done + 2)
    ELSE IF typed[1][2] = typed[2][2] THEN InputResult("returned", typed[1][2], done + 2)
    ELSE password_input_confirm(SubSeq(typed, 3, Len(typed)), done + 2)

\* password_input(prompt, confirm) on the reads typed
password_input(confirm, typed) ==
    IF confirm THEN password_input_confirm(typed, 0)
    ELSE IF Len(typed) = 0 THEN InputResult("prompting", <<>>, 0)
    ELSE IF ~typed[1][1] THEN InputResult("panic", <<>>, 1)
    ELSE InputResult("returned", typed[1][2], 1)

\* password_input called on its own, the terminal supplying the reads typed:
\* arg is typed, calls the number of reads made
PasswordInput(confirm, typed) ==
    /\ pc # "panicked"
    /\ nops < MaxOps
    /\ LET r == password_input(confirm, typed)
       IN /\ last' = [Call("password_input", <<>>, typed) EXCEPT
                         !.confirm = confirm, !.outcome = r.outcome,
                         !.ret_bool = (r.outcome = "returned"),
                         !.ret_list = r.value, !.calls = r.reads]
          /\ pc' = IF r.outcome = "panic" THEN "panicked" ELSE pc
    /\ nops' = nops + 1
    /\ UNCHANGED <<disk, cred_hashmap, overflow_checks, env>>

(***************************************************************************)
(* The shell: the command handlers of shell.rs                              *)
(*                                                                          *)
(* A handler works on an environment E = [user, permissions, map, disk,     *)
(* write_ok], map and disk being env.database and its backing file.  argv is the       *)
(* words of the command line, argv[1] the name of the command (argv[0] in   *)
(* the source), and argc their number.  tty is what the terminal and the    *)
(* random source deliver during the call: pw, the read of password_input    *)
(* without confirmation; newpw, the password that password_input in         *)
(* confirm mode ends with; rng, the result of try_fill_bytes in get_salt.   *)
(* lib holds, as functions, the two operations that hash:                   *)
(* lib.authenticate[username, password] is env.database.authenticate on the *)
(* map the command found, which every handler calls before it changes the   *)
(* store, and lib.hash_password[password, salt, cost] is hash_password.     *)
(* A handler yields the set of ways it can end: returned with a status, or  *)
(* panicked.                                                                *)
(***************************************************************************)
\* the handler returned status; auth is what authenticate returned in it
Ret(E, status, auth) == [env |-> E, status |-> status, auth |-> auth, panicked |-> FALSE]

\* the handler panicked
Panic(E, auth) == [env |-> E, status |-> -1, auth |-> auth, panicked |-> TRUE]

\* the ways write_disk may end when the map is m and the file is file:
\* <<TRUE, file>> when the write succeeded
write_disk_on(m, file) ==
    UNION {fs_write_on(file, write_buf(m, order)) : order \in Orderings(DOMAIN m)}

\* env.database.set(username, hashword); write_ok tells whether every write
\* of the command so far succeeded
db_set(E, username, hashword) ==
    {[E EXCEPT !.map = MapInsert(E.map, username, hashword), !.disk = w[2],
               !.write_ok = E.write_ok /\ w[1]] :
        w \in write_disk_on(MapInsert(E.map, username, hashword), E.disk)}

\* env.database.remove(username)
db_remove(E, username) ==
    {[E EXCEPT !.map = MapRemove(E.map, username), !.disk = w[2],
               !.write_ok = E.write_ok /\ w[1]] :
        w \in write_disk_on(MapRemove(E.map, username), E.disk)}

\* variant of db_remove_all: the loop ends after its first pass
db_remove_first(E) ==
    IF DOMAIN E.map = {} THEN {E}
    ELSE UNION {db_remove(E, u) : u \in DOMAIN E.map}

RECURSIVE db_remove_all(_)
\* for username in env.database.list_users() { env.database.remove(&username) }
db_remove_all(E) ==
    IF DOMAIN E.map = {} THEN {E}
    ELSE UNION {db_remove_all(E1) : E1 \in UNION {db_remove(E, u) : u \in DOMAIN E.map}}

\* the cost the handlers hash new passwords with.  The source has 12, that
\* is 4096 rounds for every password; the rounds are cut to 2^MaxCost, and no
\* handler looks at the cost or into the hash
DEF_HASH_COST == MaxCost

\* database.authenticate(username, password_input(prompt, false)) and then
\* granted(E) or denied
Authenticated(E, username, tty, lib, granted(_)) ==
    IF ~tty.pw[1] THEN {Panic(E, "none")}
    ELSE LET r == lib.authenticate[username, tty.pw[2]]
         IN IF r = AUTH_PANIC THEN {Panic(E, "panic")}
            ELSE IF r = AUTH_TRUE THEN granted(E)
            ELSE {Ret(E, 1, "false")}

\* variant of SetNewPassword: the password is stored as typed
SetNewPassword_unhashed(E, username, tty, lib) ==
    IF ~tty.newpw[1] \/ ~tty.rng[1] THEN {Panic(E, "true")}
    ELSE {Ret(E1, 0, "true") : E1 \in db_set(E, username, tty.newpw[2])}

\* env.database.set(username, &hash_password(&password_input(prompt, true),
\* &get_salt(None), DEF_HASH_COST)) and return 0
SetNewPassword(E, username, tty, lib) ==
    IF ~tty.newpw[1] \/ ~tty.rng[1] THEN {Panic(E, "true")}
    ELSE LET h == lib.hash_password[tty.newpw[2], get_salt(tty.rng[2]), DEF_HASH_COST]
         IN IF ~h[1] THEN {Panic(E, "true")}
            ELSE {Ret(E1, 0, "true") : E1 \in db_set(E, username, h[2])}

\* the session after a login as username
LoggedIn(E, username) ==
    [E EXCEPT !.user = username,
              !.permissions = IF username = ROOT THEN P_ROOT ELSE P_USER]

\* variant of f_login: the session is opened whatever authenticate returned
f_login_any_password(E, argv, tty, lib) ==
    IF E.user # NULLUSER THEN {Ret(E, 1, "none")}
    ELSE IF Len(argv) # 2 THEN {Ret(E, 1, "none")}
    ELSE IF ~tty.pw[1] THEN {Panic(E, "none")}
    ELSE LET r == lib.authenticate[argv[2], tty.pw[2]]
         IN IF r = AUTH_PANIC THEN {Panic(E, "panic")}
            ELSE {Ret(LoggedIn(E, argv[2]), 0, r)}

\* f_login
f_login(E, argv, tty, lib) ==
    IF E.user # NULLUSER THEN {Ret(E, 1, "none")}
    ELSE IF Len(argv) # 2 THEN {Ret(E, 1, "none")}
    ELSE Authenticated(E, argv[2], tty, lib,
             LAMBDA E0 : {Ret(LoggedIn(E0, argv[2]), 0, "true")})

\* f_switchuser
f_switchuser(E, argv, tty, lib) ==
    IF E.user = NULLUSER THEN {Ret(E, 1, "none")}
    ELSE IF Len(argv) # 2 THEN {Ret(E, 1, "none")}
    ELSE Authenticated(E, argv[2], tty, lib,
             LAMBDA E0 : {Ret(LoggedIn(E0, argv[2]), 0, "true")})

\* f_logout
f_logout(E, argv, tty, lib) ==
    {Ret([E EXCEPT !.user = NULLUSER, !.permissions = P_NONE], 0, "none")}

\* variant of rename: the record is copied, the old name keeps it
rename_keep_old(E, old_name, new_name) ==
    db_set(E, new_name, E.map[old_name])

\* remove(old_name) and set(new_name, hashword) of f_chname
rename(E, old_name, new_name) ==
    UNION {db_set(E1, new_name, E.map[old_name]) : E1 \in db_remove(E, old_name)}

\* f_chname
f_chname(E, argv, tty, lib) ==
    IF E.permissions >= P_ROOT
    THEN IF Len(argv) # 3 THEN {Ret(E, 1, "none")}
         ELSE Authenticated(E, ROOT, tty, lib, LAMBDA E0 :
                 IF contains(E0.map, argv[3]) THEN {Ret(E0, 1, "true")}
                 ELSE IF ~contains(E0.map, argv[2]) THEN {Ret(E0, 1, "true")}
                 ELSE {Ret(E2, 0, "true") : E2 \in rename(E0, argv[2], argv[3])})
    ELSE IF Len(argv) # 2 THEN {Ret(E, 1, "none")}
         ELSE Authenticated(E, E.user, tty, lib, LAMBDA E0 :
                 IF contains(E0.map, argv[2]) THEN {Ret(E0, 1, "true")}
                 ELSE {Ret([E2 EXCEPT !.user = argv[2]], 0, "true") :
                          E2 \in rename(E0, E0.user, argv[2])})

\* f_chpass
f_chpass(E, argv, tty, lib) ==
    IF Len(argv) = 1
    THEN Authenticated(E, E.user, tty, lib, LAMBDA E0 : SetNewPassword(E0, E0.user, tty, lib))
    ELSE IF Len(argv) = 2 /\ E.permissions >= P_ROOT
    THEN Authenticated(E, ROOT, tty, lib, LAMBDA E0 :
             IF ~contains(E0.map, argv[2]) THEN {Ret(E0, 1, "true")}
             ELSE SetNewPassword(E0, argv[2], tty, lib))
    ELSE {Ret(E, 1, "none")}

\* variant of f_mkuser: a name that has a record gets the new password
f_mkuser_overwrite(E, argv, tty, lib) ==
    IF Len(argv) # 2 THEN {Ret(E, 1, "none")}
    ELSE IF ~tty.newpw[1] \/ ~tty.rng[1] THEN {Panic(E, "none")}
    ELSE LET h == lib.hash_password[tty.newpw[2], get_salt(tty.rng[2]), DEF_HASH_COST]
         IN IF ~h[1] THEN {Panic(E, "none")}
            ELSE {Ret(E1, 0, "none") : E1 \in db_set(E, argv[2], h[2])}

\* f_mkuser: no password is asked for but the new one
f_mkuser(E, argv, tty, lib) ==
    IF Len(argv) # 2 THEN {Ret(E, 1, "none")}
    ELSE IF contains(E.map, argv[2]) THEN {Ret(E, 1, "none")}
    ELSE IF ~tty.newpw[1] \/ ~tty.rng[1] THEN {Panic(E, "none")}
    ELSE LET h == lib.hash_password[tty.newpw[2], get_salt(tty.rng[2]), DEF_HASH_COST]
         IN IF ~h[1] THEN {Panic(E, "none")}
            ELSE {Ret(E1, 0, "none") : E1 \in db_set(E, argv[2], h[2])}

\* variant of f_rmuser: the root password is not asked for
f_rmuser_unauthenticated(E, argv, tty, lib) ==
    IF Len(argv) # 2
    THEN IF Len(argv) < 2 THEN {Panic(E, "none")} ELSE {Ret(E, 1, "none")}
    ELSE IF argv[2] = ROOT THEN {Ret(E, 1, "none")}
    ELSE {Ret(E1, 0, "none") : E1 \in db_remove(E, argv[2])}

\* variant of f_rmuser: the name root is removed like any other
f_rmuser_any_name(E, argv, tty, lib) ==
    IF Len(argv) # 2
    THEN IF Len(argv) < 2 THEN {Panic(E, "none")} ELSE {Ret(E, 1, "none")}
    ELSE Authenticated(E, ROOT, tty, lib, LAMBDA E0 :
             {Ret(E1, 0, "true") : E1 \in db_remove(E0, argv[2])})

\* f_rmuser: the message for a wrong argc prints argv[1] of the source, which
\* a command line of one word does not have
f_rmuser(E, argv, tty, lib) ==
    IF Len(argv) # 2
    THEN IF Len(argv) < 2 THEN {Panic(E, "none")} ELSE {Ret(E, 1, "none")}
    ELSE Authenticated(E, ROOT, tty, lib, LAMBDA E0 :
             IF argv[2] = ROOT THEN {Ret(E0, 1, "true")}
             ELSE {Ret(E1, 0, "true") : E1 \in db_remove(E0, argv[2])})

\* f_reset
f_reset(E, argv, tty, lib) ==
    IF Len(argv) # 1 THEN {Ret(E, 1, "none")}
    ELSE Authenticated(E, ROOT, tty, lib, LAMBDA E0 :
             {Ret([E1 EXCEPT !.user = NULLUSER, !.permissions = P_NONE], 0, "true") :
                 E1 \in db_remove_all(E0)})

\* f_help, f_whoami, f_users and f_clear print and return 0; f_exit returns 1
f_print(E, argv, tty, lib) ==
    {Ret(E, IF argv[1] = "exit" THEN 1 ELSE 0, "none")}

\* Command.permissions of the statics HELP .. EXIT
permissions(name) ==
    CASE name \in {"mkuser", "rmuser", "reset"} -> P_ROOT
      [] name \in {"chname", "chpass", "switchuser", "logout"} -> P_USER
      [] OTHER -> P_NONE

\* Command.handler of the statics HELP .. EXIT
handler(name, E, argv, tty, lib) ==
    CASE name = "login" -> f_login(E, argv, tty, lib)
      [] name = "switchuser" -> f_switchuser(E, argv, tty, lib)
      [] name = "logout" -> f_logout(E, argv, tty, lib)
      [] name = "chname" -> f_chname(E, argv, tty, lib)
      [] name = "chpass" -> f_chpass(E, argv, tty, lib)
      [] name = "mkuser" -> f_mkuser(E, argv, tty, lib)
      [] name = "rmuser" -> f_rmuser(E, argv, tty, lib)
      [] name = "reset" -> f_reset(E, argv, tty, lib)
      [] OTHER -> f_print(E, argv, tty, lib)

\* the shell runs a command a session of these permissions may run
Permitted(name) == env.permissions >= permissions(name)

\* one command line: the command is looked up by argv[1], refused when the
\* session lacks its permissions, and its handler run otherwise; exit ends
\* the shell.  The call
\* record keeps the words, the status, what authenticate returned and the
\* password it was given, the new password typed and whether every write
\* succeeded.
Dispatch(argv, tty, lib) ==
    /\ pc = "live"
    /\ nops < MaxCommands
    /\ Permitted(argv[1])
    /\ \E out \in handler(argv[1],
                           [user |-> env.user, permissions |-> env.permissions,
                            map |-> cred_hashmap, disk |-> disk,
                            write_ok |-> TRUE], argv, tty, lib) :
          /\ env' = [user |-> out.env.user, permissions |-> out.env.permissions]
          /\ cred_hashmap' = out.env.map
          /\ disk' = out.env.disk
          /\ pc' = IF out.panicked THEN "panicked"
                   ELSE IF argv[1] = "exit" THEN "exited" ELSE "live"
          /\ last' = [Call(argv[1], IF Len(argv) >= 2 THEN argv[2] ELSE <<>>,
                                   IF Len(argv) >= 3 THEN argv[3] ELSE <<>>) EXCEPT
                         !.argc = Len(argv), !.status = out.status, !.auth = out.auth,
                         !.typed = IF out.auth = "none" THEN <<>> ELSE tty.pw[2],
                         !.newpw = tty.newpw[2],
                         !.write_ok = out.env.write_ok]
    /\ nops' = nops + 1
    /\ UNCHANGED overflow_checks

\* all sequences over S of length at most n
SeqsUpTo(S, n) == UNION {[1..k -> S] : k \in 0..n}

InitWith(files, builds) ==
    /\ env = LoggedOut
    /\ disk \in files
    /\ pc = "boot"
    /\ cred_hashmap = EmptyMap
    /\ overflow_checks \in builds
    /\ last = NoCall
    /\ nops = 0

(***************************************************************************)
(* Spec: the store written and reloaded                                     *)
(***************************************************************************)
\* names given to the methods; the name b enters through the file
Usernames == {<<"a">>, <<"a", ":", "b">>}

Hashwords == {<<"h">>, <<"g", CR>>, <<"h", LF, "b", ":", "g">>}

\* pieces of the backing file at start: a record, a line without delimiter,
\* a record without line end
Segments == {<<"a", ":", "h", LF>>, <<"j", "u", "n", "k", LF>>, <<"b", ":", "g">>}

InitialFiles == {NoFile} \cup {File(Concat(ss)) : ss \in SeqsUpTo(Segments, MaxLines)}

\* the store never shifts by a cost, so one build stands for both
Init == InitWith(InitialFiles, {TRUE})

SetAny == \E u \in Usernames, h \in Hashwords : Set(u, h)
RemoveAny == \E u \in Usernames : Remove(u)
GetAny == \E u \in Usernames : Get(u)
ContainsAny == \E u \in Usernames : Contains(u)

Next ==
    \/ New
    \/ Drop
    \/ SetAny
    \/ RemoveAny
    \/ GetAny
    \/ ContainsAny
    \/ ListUsers

Spec == Init /\ [][Next]_vars

(***************************************************************************)
(* LoadSpec: any file at start, loaded and queried                          *)
(***************************************************************************)
\* pieces of the backing file: a record, another record for the same name,
\* a record with CR LF, a line without delimiter, a line that is not UTF-8,
\* a record without line end
LoadSegments ==
    {<<"a", ":", "h", LF>>, <<"a", ":", "g", LF>>, <<"b", ":", "h", CR, LF>>,
     <<"j", "u", "n", "k", LF>>, <<"b", BADBYTE, ":", "h", LF>>, <<"b", ":", "g">>}

LoadFiles == {NoFile} \cup {File(Concat(ss)) : ss \in SeqsUpTo(LoadSegments, MaxLoadLines)}

LoadInit == InitWith(LoadFiles, {TRUE})

LoadNext ==
    \/ New
    \/ Drop
    \/ GetAny

LoadSpec == LoadInit /\ [][LoadNext]_vars

(***************************************************************************)
(* AuthSpec: entries hashed or damaged, then authenticated                  *)
(***************************************************************************)
AuthUsers == {<<"a">>, <<"b">>}

\* hash_password(p, salt, 0) of the first password and salt, for the
\* damaged entries below
SampleHash ==
    LET p == CHOOSE x \in Passwords : Len(x) = 1
        b == CHOOSE x \in RandomBytes(SaltLen) : x[1] = 7
    IN <<get_salt(b), base64_encode(derive(p, b, 1))>>

\* stored entries that hash_password did not produce: too few fields, a cost
\* that is no number, a salt that is not base64, a signed or zero-padded
\* cost, another tag, a field too many
DamagedEntries ==
    {<<"x">>,
     <<"$">> \o HASH_VERSION \o <<"$", "0">>,
     <<"$">> \o HASH_VERSION \o <<"$", "z", "$">> \o SampleHash[1] \o <<"$">> \o SampleHash[2] \o <<"$">>,
     <<"$">> \o HASH_VERSION \o <<"$", "0", "$", "!", "$">> \o SampleHash[2] \o <<"$">>,
     <<"$">> \o HASH_VERSION \o <<"$", "+", "0", "$">> \o SampleHash[1] \o <<"$">> \o SampleHash[2] \o <<"$">>,
     <<"$", "m", "d", "5", "$", "0", "$">> \o SampleHash[1] \o <<"$">> \o SampleHash[2] \o <<"$">>,
     <<"$">> \o HASH_VERSION \o <<"$", "0", "$">> \o SampleHash[1] \o <<"$">> \o SampleHash[2] \o <<"$", "$">>}

AuthFiles ==
    {NoFile} \cup {File(<<"a", ":">> \o e \o <<LF>>) : e \in DamagedEntries}

AuthInit == InitWith(AuthFiles, BOOLEAN)

SetHashedAny ==
    \E p \in Passwords, b \in RandomBytes(SaltLen), c \in Costs :
        SetHashed(<<"a">>, p, get_salt(b), c)
SetDamaged == \E e \in DamagedEntries : Set(<<"a">>, e)
AuthenticateAny == \E u \in AuthUsers, p \in Passwords : Authenticate(u, p)
RemoveAuth == \E u \in AuthUsers : Remove(u)

AuthNext ==
    \/ New
    \/ Drop
    \/ SetHashedAny
    \/ SetDamaged
    \/ RemoveAuth
    \/ AuthenticateAny

AuthSpec == AuthInit /\ [][AuthNext]_vars

(***************************************************************************)
(* HashSpec: hash_password called with a store beside it                    *)
(***************************************************************************)
\* salts given to hash_password: those of get_salt and one that is not base64
HashSalts == Salts \cup {<<"!">>}

HashInit == InitWith({NoFile, File(<<"a", ":", "h", LF>>)}, BOOLEAN)

\* one password: the claims about hash_password alone compare calls that
\* differ in salt, cost, build and store
HashPasswords == {<<"p">>}

HashPasswordAny ==
    \E p \in HashPasswords, s \in HashSalts, c \in Costs : HashPassword(p, s, c)

\* a store is loaded and dropped between the calls
HashNext ==
    \/ New
    \/ Drop
    \/ HashPasswordAny

HashSpec == HashInit /\ [][HashNext]_vars

(***************************************************************************)
(* FrameSpec: every method of a loaded store, on plain and hashed entries   *)
(***************************************************************************)
\* the entry hash_password returns for the first password, cost 0
FrameEntry ==
    LET p == CHOOSE x \in Passwords : Len(x) = 1
        b == CHOOSE x \in RandomBytes(SaltLen) : x[1] = 7
    IN hash_password_compute(p, get_salt(b), 0, TRUE)[2]

\* first lines that name the columns of the file: a comment, and the names
\* of the two fields with the delimiter of the records between them
HeaderLines == {<<"#", "u", "s", "e", "r", "s">>, <<"n", "a", "m", "e", ":", "h", "a", "s", "h">>}

\* the files read: none, a plain and a hashed record, a line that starts with
\* the delimiter, and a header line followed by a record
FrameFiles ==
    {NoFile, File(<<"a", ":", "x", LF>>), File(<<"a", ":">> \o FrameEntry \o <<LF>>),
     File(<<":", "h", LF>>)}
    \cup {File(hd \o <<LF, "a", ":", "x", LF>>) : hd \in HeaderLines}

FrameInit == InitWith(FrameFiles, {TRUE})

\* set takes any &str as the name, the empty one too
FrameSet == \E u \in AuthUsers \cup {<<>>} : Set(u, <<"g">>)
FrameGet == \E u \in AuthUsers : Get(u)
FrameContains == \E u \in AuthUsers : Contains(u)

FrameNext ==
    \/ New
    \/ Drop
    \/ FrameSet
    \/ RemoveAuth
    \/ FrameGet
    \/ FrameContains
    \/ ListUsers
    \/ AuthenticateAny

FrameSpec == FrameInit /\ [][FrameNext]_vars

(***************************************************************************)
(* ShaSpec: sha256 and its padding on their own                             *)
(***************************************************************************)
\* messages padded: one of every length up to MaxPadLen
PadMessages == {[i \in 1..n |-> (37 * i) % 256] : n \in 0..MaxPadLen}

ShaInit == InitWith({NoFile}, {TRUE})

Sha256Any == \E m \in ShaMessages : Sha256(m)
ShaPadAny == \E m \in PadMessages : ShaPad(m)

ShaNext ==
    \/ Sha256Any
    \/ ShaPadAny

ShaSpec == ShaInit /\ [][ShaNext]_vars

(***************************************************************************)
(* InputSpec: get_salt and password_input on their own                      *)
(***************************************************************************)
InputInit == InitWith({NoFile}, {TRUE})

GetSaltAny == \E num_bytes \in {None, Some(SaltLen)} : GetSalt(num_bytes)

PasswordInputAny ==
    \E confirm \in BOOLEAN, typed \in SeqsUpTo(Reads, MaxReads) : PasswordInput(confirm, typed)

InputNext ==
    \/ GetSaltAny
    \/ PasswordInputAny

InputSpec == InputInit /\ [][InputNext]_vars

(***************************************************************************)
(* ShellSpec: a session of the shell                                        *)
(***************************************************************************)
\* names given to the commands
ShellUsers == {ROOT, <<"a">>, <<"b">>}

\* the entry hash_password returns for password with the first salt
ShellEntry(password) ==
    LET b == CHOOSE x \in RandomBytes(SaltLen) : x[1] = 7
    IN (CHOOSE e \in HASH_TABLE : e[1] = <<password, get_salt(b), DEF_HASH_COST, TRUE>>)[2][2]

\* the backing file when the shell starts: none, root (password p) and a
\* (password q2), or a alone
ShellFiles ==
    {NoFile,
     File(ROOT \o <<":">> \o ShellEntry(<<"p">>) \o <<LF, "a", ":">>
               \o ShellEntry(<<"q", "2">>) \o <<LF>>),
     File(<<"a", ":">> \o ShellEntry(<<"q", "2">>) \o <<LF>>)}

ShellInit == InitWith(ShellFiles, {TRUE})

\* the store is loaded once, before the first prompt
ShellNew == pc = "boot" /\ New

CommandNames ==
    {"help", "whoami", "mkuser", "users", "clear", "chname", "chpass",
     "switchuser", "logout", "login", "rmuser", "reset", "exit"}

\* what the terminal and the random source deliver during the command name:
\* every outcome of what its handler asks for, nothing for the rest.  The
\* random bytes are SaltLen of the DEF_SALT_LEN that get_salt(None) draws.
Ttys(name) ==
    [pw : IF name \in {"login", "switchuser", "chname", "chpass", "rmuser", "reset"}
          THEN Reads ELSE {<<FALSE, <<>>>>},
     newpw : IF name \in {"chpass", "mkuser"}
             THEN {<<TRUE, <<"p">>>>, <<FALSE, <<>>>>} ELSE {<<FALSE, <<>>>>},
     rng : IF name \in {"chpass", "mkuser"}
           THEN {<<TRUE, CHOOSE x \in RandomBytes(SaltLen) : x[1] = 7>>, <<FALSE, <<>>>>}
           ELSE {<<FALSE, <<>>>>}]

\* the words after the command: up to two names, none for the commands that
\* only print
Args(name) ==
    IF name \in {"help", "whoami", "users", "clear", "exit"} THEN {<<>>}
    ELSE SeqsUpTo(ShellUsers, 2)

\* authenticate on the store as it is, and hash_password, for the names the
\* commands are given and the passwords and salts the handlers are given
LibraryOn(m) ==
    [authenticate |-> [u \in ShellUsers \cup {NULLUSER}, p \in Passwords |->
                          authenticate(m, u, p)],
     hash_password |-> [p \in Passwords, s \in Salts, c \in {DEF_HASH_COST} |->
                          hash_password(p, s, c)]]

Library == LibraryOn(cred_hashmap)

RunCommand(name) ==
    \E args \in Args(name), tty \in Ttys(name) :
        Dispatch(<<name>> \o args, tty, Library)

ShellNext ==
    \/ ShellNew
    \/ \E name \in CommandNames : RunCommand(name)

ShellSpec == ShellInit /\ [][ShellNext]_vars

(***************************************************************************)
(* Properties of the store (Spec)                                           *)
(***************************************************************************)
Has(s, c) == \E i \in 1..Len(s) : s[i] = c

\* every record survives the line format: no name holds the delimiter or a
\* line feed, no hash holds a line feed or ends in a carriage return
LineSafe(m) ==
    \A u \in DOMAIN m :
        /\ ~Has(u, ":")
        /\ ~Has(u, LF)
        /\ ~Has(m[u], LF)
        /\ ~(m[u] # <<>> /\ m[u][Len(m[u])] = CR)

\* the file holds exactly one "username:hash" line per record of m, and
\* reading it back gives m
FileMatches(m) ==
    LET ls == lines(disk.data)
    IN /\ disk.exists
       /\ Len(ls) = Cardinality(DOMAIN m)
       /\ \A u \in DOMAIN m :
             Cardinality({i \in 1..Len(ls) : ls[i] = <<TRUE, u \o <<":">> \o m[u]>>}) = 1
       /\ read_disk(disk, TRUE) = m

\* C1 as stated: for any username and hash, get returns the hash after set,
\* and still does after the store is dropped and built again from the path
\* (read here with a write that succeeded and a file that could be opened).
C1_AnyRoundTrip ==
    /\ last.op = "set" => get(cred_hashmap, last.username) = Some(last.arg)
    /\ (last.op = "new" /\ last.open_ok /\ last.prev_op = "set" /\ last.prev_write_ok)
          => get(cred_hashmap, last.username) = Some(last.arg)

\* C1 amended: get returns the hash right after set for any username and
\* hash; after drop and reload it still does when the write succeeded, the
\* file could be opened, and the records of the store were line-safe.
C1_RoundTrip ==
    [][/\ last'.op = "set" => get(cred_hashmap', last'.username) = Some(last'.arg)
       /\ (/\ pc # "live" /\ pc' = "live"
           /\ last.op = "set" /\ last.write_ok /\ last'.open_ok
           /\ LineSafe(cred_hashmap))
             => get(cred_hashmap', last.username) = Some(last.arg)]_vars

\* a store reloaded after a successful set, holding the record again next to another
C1_Witness ==
    /\ pc = "live" /\ last.op = "new" /\ last.open_ok
    /\ last.prev_op = "set" /\ last.prev_write_ok
    /\ LineSafe(cred_hashmap)
    /\ Cardinality(DOMAIN cred_hashmap) = 2
    /\ get(cred_hashmap, last.username) = Some(last.arg)

C7_FailedWriteKeepsMemory ==
    [][/\ (last'.op = "set" /\ nops' = nops + 1 /\ ~last'.write_ok)
             => /\ pc' = "live"
                /\ cred_hashmap' = MapInsert(cred_hashmap, last'.username, last'.arg)
       /\ (last'.op = "remove" /\ nops' = nops + 1 /\ ~last'.write_ok)
             => /\ pc' = "live"
                /\ cred_hashmap' = MapRemove(cred_hashmap, last'.username)
       /\ (last.op \in {"set", "remove"} /\ ~last.write_ok /\ nops' = nops + 1)
             => /\ last'.op = "get" => last'.ret_opt = get(cred_hashmap, last'.username)
                /\ last'.op = "contains"
                      => last'.ret_bool = (last'.username \in DOMAIN cred_hashmap)
                /\ last'.op = "list_users"
                      => {last'.ret_list[i] : i \in 1..Len(last'.ret_list)} = DOMAIN cred_hashmap]_vars

\* a get that follows a set whose write failed and left the file without
\* the record, answered with the record
C7_Witness ==
    /\ last.op = "get" /\ last.prev_op = "set" /\ ~last.prev_write_ok
    /\ last.ret_opt # None
    /\ get(read_disk(disk, disk.exists), last.username) = None

(***************************************************************************)
(* Properties of loading (LoadSpec)                                         *)
(***************************************************************************)
\* the lines of the file that are text and hold the delimiter
RecordLines == {i \in 1..Len(lines(disk.data)) : lines(disk.data)[i][1] /\ Has(lines(disk.data)[i][2], ":")}

\* the name of record line i: what stands before its first delimiter
LineName(i) ==
    LET l == lines(disk.data)[i][2]
    IN CHOOSE n \in {SubSeq(l, 1, k) : k \in 0..(Len(l) - 1)} :
          ~Has(n, ":") /\ l[Len(n) + 1] = ":"

\* the hash of record line i: what stands after its first delimiter
LineHash(i) ==
    LET l == lines(disk.data)[i][2]
    IN SubSeq(l, Len(LineName(i)) + 2, Len(l))

\* the first record line with the name of record line i
FirstLine(i) ==
    CHOOSE f \in RecordLines :
        /\ LineName(f) = LineName(i)
        /\ \A g \in RecordLines : LineName(g) = LineName(i) => f <= g

\* C8: when several lines of the file have the same username the loaded
\* store maps it to the hash of the first of them; the later ones are dropped.
C8_FirstOccurrenceWins ==
    (last.op = "new" /\ last.open_ok)
        => \A i \in RecordLines : get(cred_hashmap, LineName(i)) = Some(LineHash(FirstLine(i)))

\* a loaded file with two lines for one name and different hashes
C8_Witness ==
    /\ last.op = "new" /\ last.open_ok /\ pc = "live"
    /\ \E i, j \in RecordLines :
          /\ i < j
          /\ LineName(i) = LineName(j)
          /\ LineHash(i) # LineHash(j)
          /\ FirstLine(j) = i
          /\ cred_hashmap[LineName(j)] = LineHash(i)

\* the file without the lines that are not records
RecordData ==
    LET segs == raw_lines(disk.data)
        keep(seg) == line_item(seg)[1] /\ Has(line_item(seg)[2], ":")
    IN Concat(SelectSeq(segs, keep))

\* C9: a line that cannot be split on ":" is skipped and the load goes on:
\* the store holds a record for exactly the names of the record lines, each
\* with the hash of one of them, and equals the store loaded from the file
\* without the other lines.
C9_MalformedLinesSkipped ==
    (last.op = "new" /\ last.open_ok)
        => /\ DOMAIN cred_hashmap = {LineName(i) : i \in RecordLines}
           /\ \A u \in DOMAIN cred_hashmap :
                 \E i \in RecordLines : LineName(i) = u /\ LineHash(i) = cred_hashmap[u]
           /\ cred_hashmap = read_disk(File(RecordData), TRUE)

\* a loaded file with a line without delimiter between two records, both loaded
C9_Witness ==
    /\ last.op = "new" /\ last.open_ok /\ pc = "live"
    /\ \E i, k \in RecordLines :
          /\ \E j \in (i + 1)..(k - 1) :
                j \notin RecordLines /\ lines(disk.data)[j][1]
          /\ LineName(i) # LineName(k)
          /\ {LineName(i), LineName(k)} \subseteq DOMAIN cred_hashmap

\* C10: new on a path whose file is missing or cannot be opened gives a
\* store without records and does not panic.
C10_NoFileEmptyStore ==
    (last.op = "new" /\ ~last.open_ok)
        => pc # "panicked" /\ cred_hashmap = EmptyMap

\* a store built while the file, which holds records, could not be opened
C10_Witness ==
    /\ last.op = "new" /\ ~last.open_ok /\ pc = "live"
    /\ disk.exists /\ RecordLines # {}
    /\ cred_hashmap = EmptyMap

(***************************************************************************)
(* Properties of authenticate (AuthSpec)                                    *)
(***************************************************************************)
\* the digest hash_password derives for a password with a base64 salt and a cost
digest_of(password, salt, cost) ==
    derive(password, base64_decode(salt)[2], shl_one(cost, overflow_checks)[2])

\* the stored entry of username decodes, and the digest recomputed from the
\* password with its salt and cost equals its digest byte for byte
DigestMatches(m, username, password) ==
    /\ username \in DOMAIN m
    /\ LET f == split(m[username], "$")
       IN /\ Len(f) >= 5
          /\ parse_usize(f[3])[1]
          /\ base64_decode(f[4])[1]
          /\ shl_one(parse_usize(f[3])[2], overflow_checks)[1]
          /\ base64_decode(f[5]) = <<TRUE, digest_of(password, f[4], parse_usize(f[3])[2])>>

\* C2 as stated: authenticate returns true exactly when the digest
\* recomputed with the stored salt and cost equals the stored digest, and
\* returns false in every other case.
C2_TrueIffDigestMatches ==
    last.op = "authenticate"
        => /\ pc # "panicked"
           /\ last.ret_bool <=> DigestMatches(cred_hashmap, last.username, last.arg)

\* C3: with the entry of u being hash_password(p, s, c) for a salt s from
\* get_salt, authenticate(u, p) returns true, and authenticate(u, q) returns
\* false for every q whose derived digest differs from that of p.
C3_HashedThenAuthenticated ==
    (last.op = "authenticate" /\ last.username \in DOMAIN cred_hashmap)
        => \A p \in Passwords, s \in Salts, c \in Costs :
              hash_password(p, s, c) = <<TRUE, cred_hashmap[last.username]>>
                 => /\ pc # "panicked"
                    /\ last.arg = p => last.ret_bool
                    /\ digest_of(last.arg, s, c) # digest_of(p, s, c) => ~last.ret_bool

\* authenticate accepted the password right after set stored its hash, made
\* with more than one round of hashing
C3_Witness ==
    /\ last.op = "authenticate" /\ last.prev_op = "set" /\ last.ret_bool
    /\ \E s \in Salts, c \in Costs :
          /\ c >= 1
          /\ hash_password(last.arg, s, c) = <<TRUE, cred_hashmap[last.username]>>

\* an entry with the wrong number of fields, a cost that is no non-negative
\* integer, or a salt that is not base64
Malformed(entry) ==
    LET f == split(entry, "$")
    IN \/ Len(f) # 6
       \/ ~parse_usize(f[3])[1]
       \/ ~base64_decode(f[4])[1]

\* C4: for a stored entry that is malformed, authenticate returns false and
\* does not panic.
C4_MalformedFailsClosed ==
    (/\ last.op = "authenticate"
     /\ last.username \in DOMAIN cred_hashmap
     /\ Malformed(cred_hashmap[last.username]))
        => pc # "panicked" /\ ~last.ret_bool

\* C5: authenticate returns false for a username without a record.
C5_AbsentUserRejected ==
    (last.op = "authenticate" /\ last.username \notin DOMAIN cred_hashmap)
        => pc # "panicked" /\ ~last.ret_bool

\* a username without record rejected with a password that another account accepts
C5_Witness ==
    /\ last.op = "authenticate" /\ pc = "live" /\ ~last.ret_bool
    /\ last.username \notin DOMAIN cred_hashmap
    /\ \E u \in DOMAIN cred_hashmap : authenticate(cred_hashmap, u, last.arg) = AUTH_TRUE

(***************************************************************************)
(* Properties of remove (Spec)                                              *)
(***************************************************************************)
\* C20: remove(username) returns normally; without a record of the name the
\* map stays as it was, with one exactly that record goes and every other
\* record keeps its hash; in both cases the file is written again, so that
\* after a write that succeeded it holds the lines of the records left.
C20_RemoveFrame ==
    [][(last'.op = "remove" /\ nops' = nops + 1)
          => /\ pc' = "live"
             /\ DOMAIN cred_hashmap' = (DOMAIN cred_hashmap) \ {last'.username}
             /\ \A u \in DOMAIN cred_hashmap' : cred_hashmap'[u] = cred_hashmap[u]
             /\ last'.username \notin DOMAIN cred_hashmap => cred_hashmap' = cred_hashmap
             /\ last'.write_ok
                   => \E order \in Orderings(DOMAIN cred_hashmap') :
                         disk' = File(write_buf(cred_hashmap', order))]_vars

\* the first call on a store with records removes a name that only set could
\* have stored: the records stay and the file holds their lines
C20_Witness ==
    /\ last.op = "remove" /\ nops = 1 /\ last.write_ok
    /\ Has(last.username, ":")
    /\ cred_hashmap # EmptyMap
    /\ \E order \in Orderings(DOMAIN cred_hashmap) : disk = File(write_buf(cred_hashmap, order))

(***************************************************************************)
(* Properties of hash_password (HashSpec)                                   *)
(***************************************************************************)
\* the count is 2^cost.  Powers beyond 2^30 are not computed: a count of at
\* most 2^30 is not one of them.
IsPow2Of(count, cost) ==
    IF cost <= 30 THEN count = Pow2(cost) ELSE count > Pow2(30)

\* C11 as stated: hash_password with a salt that decodes calls sha256 2^cost
\* times in all, once for cost 0, and for cost c + 1 twice as often as for
\* cost c.
C11_CallsArePow2 ==
    (last.op = "hash_password" /\ base64_decode(last.salt)[1])
        => /\ IsPow2Of(last.calls, last.cost)
           /\ last.cost = 0 => last.calls = 1
           /\ \A c \in Costs :
                 c + 1 = last.cost
                    => last.calls = 2 * sha256_calls(last.salt, c, overflow_checks)

\* C12 as stated: a cost whose power of two does not fit usize makes
\* hash_password fail before the first call of sha256, and it returns no
\* digest made with a wrapped count.
C12_OverflowRejectedFirst ==
    (last.op = "hash_password" /\ base64_decode(last.salt)[1] /\ last.cost >= USIZE_BITS)
        => ~last.ret_bool /\ last.calls = 0

\* the text is framed by "$", holds the tag, the decimal cost, the salt as
\* given and the padded base64 of the 32 bytes derived
FormattedAs(text, password, salt, cost) ==
    LET f == split(text, "$")
        n == shl_one(cost, overflow_checks)[2]
    IN /\ text[1] = "$" /\ text[Len(text)] = "$"
       /\ Len(f) = 6 /\ f[1] = <<>> /\ f[6] = <<>>
       /\ f[2] = <<"s", "h", "a", "2", "5", "6", "i", "t", "e", "r", "-", "1">>
       /\ f[3] # <<>> /\ \A i \in 1..Len(f[3]) : f[3][i] \in {DIGITS[k] : k \in 1..10}
       /\ (Len(f[3]) > 1 => f[3][1] # "0")
       /\ digits_value(f[3]) = cost
       /\ f[4] = salt
       /\ Len(f[5]) = 44 /\ f[5][44] = "="
       /\ base64_decode(f[5])[1]
       /\ Len(base64_decode(f[5])[2]) = 32
       /\ base64_decode(f[5])[2] = derive(password, base64_decode(salt)[2], n)

C14_SplitRecoversFields ==
    (last.op = "hash_password" /\ last.ret_bool)
        => LET entry_iter == split(last.ret_list, "$")
           IN /\ Len(entry_iter) >= 5
              /\ parse_usize(entry_iter[3]) = <<TRUE, last.cost>>
              /\ entry_iter[4] = last.salt
              /\ entry_iter[5] = base64_encode(derive(last.arg, base64_decode(last.salt)[2],
                                     shl_one(last.cost, overflow_checks)[2]))

\* hash_password returned a text with a cost of two digits
C14_Witness ==
    /\ last.op = "hash_password" /\ last.ret_bool
    /\ last.cost >= 10
    /\ Len(split(last.ret_list, "$")) = 6

C15_ForeignTagRejected ==
    (/\ last.op = "authenticate"
     /\ last.username \in DOMAIN cred_hashmap
     /\ LET f == split(cred_hashmap[last.username], "$")
        IN Len(f) < 2 \/ f[2] # HASH_VERSION)
        => /\ ~last.ret_bool
           /\ DigestMatches(cred_hashmap, last.username, last.arg) => pc # "panicked"

\* authenticate returned false for an entry with another tag whose cost, salt
\* and digest are those of the password
C15_Witness ==
    /\ last.op = "authenticate" /\ pc = "live" /\ ~last.ret_bool
    /\ last.username \in DOMAIN cred_hashmap
    /\ Len(split(cred_hashmap[last.username], "$")) = 6
    /\ split(cred_hashmap[last.username], "$")[2] = <<"m", "d", "5">>
    /\ DigestMatches(cred_hashmap, last.username, last.arg)

(***************************************************************************)
(* Properties of sha256 (ShaSpec)                                           *)
(***************************************************************************)
\* C16: for a message of n bytes the padded message is the message, the byte
\* 0x80, the fewest zero bytes that bring the length to 56 modulo 64 and the
\* bit length in 8 bytes, most significant first; its length is a multiple
\* of 64 bytes, so the assertion holds and the chunks of 64 bytes cover it.
C16_PaddedLengthMultipleOf64 ==
    /\ last.op = "sha_pad"
          => LET n == Len(last.arg)
                 padded == last.ret_list
                 z == Len(padded) - n - 9
             IN /\ z >= 0 /\ z < 64
                /\ (n + 1 + z) % 64 = 56
                /\ SubSeq(padded, 1, n) = last.arg
                /\ padded[n + 1] = 128
                /\ \A i \in (n + 2)..(n + 1 + z) : padded[i] = 0
                /\ \A i \in 1..4 : padded[n + 1 + z + i] = 0
                /\ padded[n + z + 6] * 16777216 + padded[n + z + 7] * 65536
                      + padded[n + z + 8] * 256 + padded[n + z + 9] = n * 8
                /\ Len(padded) % 64 = 0
                /\ (Len(padded) * 8) % 512 = 0
                /\ (Len(padded) \div 64) * 64 = Len(padded)
    /\ last.op = "sha256" => pc # "panicked"

\* a message of 56 bytes was padded to two blocks
C16_Witness ==
    /\ last.op = "sha_pad"
    /\ Len(last.arg) = 56
    /\ Len(last.ret_list) = 128

\* the bytes in lower-case hexadecimal
hex(bytes) ==
    LET HEXDIGITS == <<"0", "1", "2", "3", "4", "5", "6", "7",
                       "8", "9", "a", "b", "c", "d", "e", "f">>
    IN [i \in 1..(2 * Len(bytes)) |->
           IF i % 2 = 1 THEN HEXDIGITS[(bytes[(i + 1) \div 2] \div 16) + 1]
           ELSE HEXDIGITS[(bytes[i \div 2] % 16) + 1]]

\* C17 as stated: the hexadecimal form of sha256 of the empty byte sequence
\* is the text of 63 digits e3b0c442...7852b85.
C17_EmptyDigestAsPrinted ==
    (last.op = "sha256" /\ last.arg = <<>>)
        => hex(last.ret_list) = <<
              "e", "3", "b", "0", "c", "4", "4", "2", "9", "8", "f", "c", "1", "c", "1", "4",
              "9", "a", "f", "b", "f", "4", "c", "8", "9", "9", "6", "f", "b", "9", "2", "4",
              "2", "7", "a", "e", "4", "1", "e", "4", "6", "4", "9", "b", "9", "3", "4", "c",
              "a", "4", "9", "5", "9", "9", "1", "b", "7", "8", "5", "2", "b", "8", "5">>

\* C17: sha256 of the empty byte sequence is the standard digest, in
\* hexadecimal the 64 digits e3b0c442...7852b855.
C17_EmptyDigest ==
    (last.op = "sha256" /\ last.arg = <<>>)
        => hex(last.ret_list) = <<
              "e", "3", "b", "0", "c", "4", "4", "2", "9", "8", "f", "c", "1", "c", "1", "4",
              "9", "a", "f", "b", "f", "4", "c", "8", "9", "9", "6", "f", "b", "9", "2", "4",
              "2", "7", "a", "e", "4", "1", "e", "4", "6", "4", "9", "b", "9", "3", "4", "c",
              "a", "4", "9", "5", "9", "9", "1", "b", "7", "8", "5", "2", "b", "8", "5", "5">>

\* sha256 was called with the empty byte sequence and returned 32 bytes
C17_Witness ==
    /\ last.op = "sha256" /\ last.arg = <<>> /\ pc # "panicked"
    /\ Len(last.ret_list) = 32

\* C18: sha256 returns for every byte sequence, the empty one included, with
\* no assertion failing, and what it returns is 32 bytes.
C18_Total ==
    last.op = "sha256"
        => /\ pc # "panicked"
           /\ Len(last.ret_list) = 32
           /\ \A i \in 1..Len(last.ret_list) : last.ret_list[i] \in 0..255

\* sha256 returned for the longest message, all of whose bytes are 255
C18_Witness ==
    /\ last.op = "sha256" /\ pc # "panicked"
    /\ Len(last.arg) = MaxMsgLen
    /\ \A i \in 1..Len(last.arg) : last.arg[i] = 255
    /\ Len(last.ret_list) = 32

(***************************************************************************)
(* Properties of the key set (FrameSpec)                                    *)
(***************************************************************************)
\* C21: while a store is loaded, a call of list_users, contains, get, remove
\* or authenticate adds no name to the key set, and a step that adds a name
\* is a call of set that adds the name it was given.
C21_OnlySetAddsKeys ==
    [][pc = "live"
          => /\ (last'.op \in {"list_users", "contains", "get", "remove", "authenticate"}
                   /\ nops' = nops + 1)
                 => DOMAIN cred_hashmap' \subseteq DOMAIN cred_hashmap
             /\ (DOMAIN cred_hashmap') \ (DOMAIN cred_hashmap) # {}
                 => /\ last'.op = "set"
                    /\ (DOMAIN cred_hashmap') \ (DOMAIN cred_hashmap) = {last'.username}]_vars

\* get was called for a name without a record on a store that holds records,
\* and the name has no record afterwards
C21_Witness ==
    /\ last.op = "get" /\ pc = "live"
    /\ last.ret_opt = None
    /\ last.username \notin DOMAIN cred_hashmap
    /\ cred_hashmap # EmptyMap

\* C22 as stated: every name the store holds is not empty and occurs once,
\* whatever file was loaded and whatever set and remove calls were made.
C22_UsernamesNonEmptyUnique ==
    /\ pc = "live" => \A u \in DOMAIN cred_hashmap : u # <<>>
    /\ (pc = "live" /\ last.op = "list_users")
          => /\ Len(last.ret_list) = Cardinality(DOMAIN cred_hashmap)
             /\ \A i, j \in 1..Len(last.ret_list) :
                   last.ret_list[i] = last.ret_list[j] => i = j

\* C23 as stated: a store loaded from a file whose first line is a header
\* holds the records of the lines after it and nothing made from the header.
C23_HeaderSkipped ==
    \A hd \in HeaderLines :
        (/\ last.op = "new" /\ last.open_ok /\ pc = "live"
         /\ Len(disk.data) > Len(hd)
         /\ SubSeq(disk.data, 1, Len(hd) + 1) = hd \o <<LF>>)
            => cred_hashmap
                   = read_disk(File(SubSeq(disk.data, Len(hd) + 2, Len(disk.data))), TRUE)

(***************************************************************************)
(* Properties of get_salt and password_input (InputSpec)                    *)
(***************************************************************************)
\* C24: when the random source fails get_salt panics and returns nothing, and
\* a salt it returns is the base64 of a buffer the random source filled
\* whole, never of the zeroed buffer it started from.
C24_RngFailureIsFatal ==
    last.op = "get_salt"
        => /\ ~last.rng_ok => (pc = "panicked" /\ ~last.ret_bool /\ last.ret_list = <<>>)
           /\ last.ret_bool
                 => /\ last.rng_ok
                    /\ last.arg \in RandomBytes(last.num_bytes)
                    /\ base64_decode(last.ret_list) = <<TRUE, last.arg>>
                    /\ \E i \in 1..Len(last.arg) : last.arg[i] # 0

\* the random source failed on the buffer of DEF_SALT_LEN bytes before it
\* wrote a byte, and get_salt panicked
C24_Witness ==
    /\ last.op = "get_salt" /\ ~last.rng_ok
    /\ pc = "panicked"
    /\ Len(last.arg) = DEF_SALT_LEN
    /\ \A i \in 1..Len(last.arg) : last.arg[i] = 0

\* round j of the reads typed was read whole and its two entries are equal
RoundMatches(typed, j) ==
    /\ 2 * j <= Len(typed)
    /\ typed[2 * j - 1][1] /\ typed[2 * j][1]
    /\ typed[2 * j - 1][2] = typed[2 * j][2]

\* round j of the reads typed was read whole and its two entries differ
RoundDiffers(typed, j) ==
    /\ 2 * j <= Len(typed)
    /\ typed[2 * j - 1][1] /\ typed[2 * j][1]
    /\ typed[2 * j - 1][2] # typed[2 * j][2]

\* C25: in confirm mode password_input returns only the password typed twice
\* in one round, every round before it having two different entries; it
\* returns at the first round whose entries are equal, reading nothing after
\* it; and after any number of rounds with different entries it prompts again.
C25_ConfirmLoop ==
    (last.op = "password_input" /\ last.confirm)
        => LET typed == last.arg
               rounds == last.calls \div 2
           IN /\ last.ret_bool
                    => /\ last.calls = 2 * rounds /\ rounds >= 1
                       /\ RoundMatches(typed, rounds)
                       /\ last.ret_list = typed[2 * rounds][2]
                       /\ \A j \in 1..(rounds - 1) : RoundDiffers(typed, j)
              /\ \A j \in 1..(Len(typed) \div 2) :
                    (RoundMatches(typed, j) /\ \A i \in 1..(j - 1) : RoundDiffers(typed, i))
                        => (last.ret_bool /\ last.calls = 2 * j)
              /\ (Len(typed) % 2 = 0 /\ \A j \in 1..(Len(typed) \div 2) : RoundDiffers(typed, j))
                    => (last.outcome = "prompting" /\ last.calls = Len(typed) /\ pc # "panicked")

\* the entries of the first round differed and password_input returned the
\* password typed twice in the second
C25_Witness ==
    /\ last.op = "password_input" /\ last.confirm /\ last.ret_bool
    /\ last.calls = 4
    /\ RoundDiffers(last.arg, 1)
    /\ last.ret_list = last.arg[3][2]

(***************************************************************************)
(* Properties of the shell (ShellSpec)                                      *)
(***************************************************************************)
\* the step is the command name
Ran(name) == pc = "live" /\ nops' = nops + 1 /\ last'.op = name

\* the environment the handlers of this step were given
EnvNow == [user |-> env.user, permissions |-> env.permissions,
           map |-> cred_hashmap, disk |-> disk, write_ok |-> TRUE]

\* C26: login and switchuser set the session user to U only when
\* authenticate(U, password) returned true, on the store as it was, for the
\* password typed in that command, and then the session is U's; after a
\* failed authentication, with a wrong number of arguments, at a login while
\* logged in and at a switchuser while logged out, user and permissions are
\* unchanged and the status is 1.  No session that may run switchuser is
\* logged out, so that case is also stated of the handler itself.
C26_SessionOnlyAfterAuthenticate ==
    [][(Ran("login") \/ Ran("switchuser")) =>
         LET U == last'.username
             refused == \/ last'.argc # 2
                        \/ last'.op = "login" /\ env.user # NULLUSER
                        \/ last'.op = "switchuser" /\ env.user = NULLUSER
         IN /\ (last'.status = 0 \/ env' # env) =>
                  /\ ~refused
                  /\ authenticate(cred_hashmap, U, last'.typed) = AUTH_TRUE
                  /\ env'.user = U
                  /\ last'.status = 0
            /\ refused => env' = env /\ last'.status = 1
            /\ (~refused /\ last'.auth # "none"
                  /\ authenticate(cred_hashmap, U, last'.typed) = AUTH_FALSE) =>
                  env' = env /\ last'.status = 1
            /\ \A tty \in Ttys("switchuser") :
                  LET E == [EnvNow EXCEPT !.user = NULLUSER, !.permissions = P_NONE]
                  IN f_switchuser(E, <<"switchuser", U>>, tty, Library)
                        = {Ret(E, 1, "none")}
      ]_vars

\* after a login, a switchuser to root went through
C26_Witness ==
    /\ last.op = "switchuser"
    /\ last.auth = "true"
    /\ last.status = 0
    /\ env = [user |-> ROOT, permissions |-> P_ROOT]
    /\ nops >= 2

\* the account whose password the command of this step asks for
AuthenticatedAs ==
    CASE last'.op \in {"rmuser", "reset"} -> ROOT
      [] last'.op = "chname" -> IF env.permissions >= P_ROOT THEN ROOT ELSE env.user
      [] last'.op = "chpass" -> IF last'.argc = 1 THEN env.user ELSE ROOT
      [] OTHER -> NULLUSER

\* C27: chname, chpass, rmuser and reset change the map or the backing file
\* only when authenticate returned true in that command, on the store as it
\* was and for the password typed; when it returned false the map, the file,
\* the session user and the permissions are unchanged and the status is 1.
C27_StoreOnlyAfterAuthenticate ==
    [][(Ran("chname") \/ Ran("chpass") \/ Ran("rmuser") \/ Ran("reset")) =>
         /\ (cred_hashmap' # cred_hashmap \/ disk' # disk) =>
               /\ last'.auth = "true"
               /\ authenticate(cred_hashmap, AuthenticatedAs, last'.typed) = AUTH_TRUE
         /\ (last'.auth # "none"
               /\ authenticate(cred_hashmap, AuthenticatedAs, last'.typed) = AUTH_FALSE) =>
               /\ UNCHANGED <<cred_hashmap, disk, env>>
               /\ last'.status = 1
               /\ last'.auth = "false"
      ]_vars

\* root removed the account a
C27_Witness ==
    /\ last.op = "rmuser"
    /\ last.username = <<"a">>
    /\ last.auth = "true"
    /\ last.status = 0
    /\ DOMAIN cred_hashmap = {ROOT}
    /\ env.user = ROOT

\* C28: in a running shell the permissions go with the session user: P_NONE
\* exactly when nobody is logged in, P_ROOT exactly when the user is root,
\* P_USER for every other user.
C28_PermissionsMatchUser ==
    pc = "live" =>
        env.permissions = (IF env.user = NULLUSER THEN P_NONE
                           ELSE IF env.user = ROOT THEN P_ROOT
                           ELSE P_USER)

\* C29: in a running shell the user logged in has a record in the store.
C29_SessionUserHasRecord ==
    (pc = "live" /\ env.user # NULLUSER) => contains(cred_hashmap, env.user)

\* C30: chname given root as the old name (the session user, for a user
\* without root permissions) or as the new name is refused and leaves the
\* map and the file as they were; no chname takes the record of root away or
\* brings one in.
C30_ChnameSparesRoot ==
    [][Ran("chname") =>
         LET as_root == env.permissions >= P_ROOT
             named == last'.argc = (IF as_root THEN 3 ELSE 2)
             old_name == IF as_root THEN last'.username ELSE env.user
             new_name == IF as_root THEN last'.arg ELSE last'.username
         IN /\ (named /\ (old_name = ROOT \/ new_name = ROOT)) =>
                  /\ last'.status # 0
                  /\ UNCHANGED <<cred_hashmap, disk>>
            /\ contains(cred_hashmap', ROOT) = contains(cred_hashmap, ROOT)
      ]_vars

\* the records of m under the names other than those of S
Others(m, S) == [x \in (DOMAIN m) \ S |-> m[x]]

\* C31: a chname that returns 0 moves the record of the old name (the session
\* user, for a user without root permissions) to the new name as it is: the
\* new name has the hash the old one had, the old name has no record, every
\* other record is as before and so is the number of records.  A chname that
\* returns while the new name has a record or, as root, the old name has
\* none, returns 1 with map and file unchanged.
C31_ChnameMovesRecord ==
    [][Ran("chname") =>
         LET as_root == env.permissions >= P_ROOT
             named == last'.argc = (IF as_root THEN 3 ELSE 2)
             old_name == IF as_root THEN last'.username ELSE env.user
             new_name == IF as_root THEN last'.arg ELSE last'.username
         IN /\ last'.status = 0 =>
                  /\ named
                  /\ contains(cred_hashmap, old_name)
                  /\ get(cred_hashmap', new_name) = get(cred_hashmap, old_name)
                  /\ ~contains(cred_hashmap', old_name)
                  /\ Others(cred_hashmap', {old_name, new_name})
                        = Others(cred_hashmap, {old_name, new_name})
                  /\ Cardinality(DOMAIN cred_hashmap') = Cardinality(DOMAIN cred_hashmap)
            /\ (pc' = "live" /\ named
                  /\ (contains(cred_hashmap, new_name)
                        \/ (as_root /\ ~contains(cred_hashmap, old_name)))) =>
                  /\ last'.status = 1
                  /\ UNCHANGED <<cred_hashmap, disk>>
      ]_vars

\* root renamed a to b, beside its own record
C31_Witness ==
    /\ last.op = "chname"
    /\ last.status = 0
    /\ last.username = <<"a">>
    /\ last.arg = <<"b">>
    /\ DOMAIN cred_hashmap = {ROOT, <<"b">>}
    /\ cred_hashmap[<<"b">>] = ShellEntry(<<"q", "2">>)

\* C32: no rmuser removes or alters the record of root; an rmuser given the
\* name root that returns, returns 1 with map and file unchanged; an rmuser
\* given another name adds nothing and leaves every record but that of the
\* name as it was.
C32_RmuserSparesRoot ==
    [][Ran("rmuser") =>
         /\ get(cred_hashmap', ROOT) = get(cred_hashmap, ROOT)
         /\ (pc' = "live" /\ last'.argc = 2 /\ last'.username = ROOT) =>
               /\ last'.status = 1
               /\ UNCHANGED <<cred_hashmap, disk>>
         /\ DOMAIN cred_hashmap' \subseteq DOMAIN cred_hashmap
         /\ Others(cred_hashmap', {last'.username}) = Others(cred_hashmap, {last'.username})
      ]_vars

\* root, authenticated, asked for its own removal and was refused
C32_Witness ==
    /\ last.op = "rmuser"
    /\ last.username = ROOT
    /\ last.argc = 2
    /\ last.auth = "true"
    /\ last.status = 1
    /\ contains(cred_hashmap, ROOT)

\* C33: an mkuser given a name that has a record returns 1 and leaves map
\* and file as they were; given a name that has none, an mkuser that returns,
\* returns 0 and the map has gained the record of that name and no other;
\* no mkuser touches the record of another name.
C33_MkuserAddsOneRecord ==
    [][Ran("mkuser") =>
         LET name == last'.username
         IN /\ Others(cred_hashmap', {name}) = Others(cred_hashmap, {name})
            /\ contains(cred_hashmap, name) => UNCHANGED <<cred_hashmap, disk>>
            /\ (last'.argc = 2 /\ contains(cred_hashmap, name)) => last'.status = 1
            /\ (pc' = "live" /\ last'.argc = 2 /\ ~contains(cred_hashmap, name)) =>
                  /\ last'.status = 0
                  /\ DOMAIN cred_hashmap' = DOMAIN cred_hashmap \cup {name}
                  /\ Cardinality(DOMAIN cred_hashmap') = Cardinality(DOMAIN cred_hashmap) + 1
            /\ last'.status = 0 => (last'.argc = 2 /\ ~contains(cred_hashmap, name))
      ]_vars

\* root created the account b beside root and a
C33_Witness ==
    /\ last.op = "mkuser"
    /\ last.username = <<"b">>
    /\ last.status = 0
    /\ DOMAIN cred_hashmap = {ROOT, <<"a">>, <<"b">>}
    /\ cred_hashmap[<<"a">>] = ShellEntry(<<"q", "2">>)

\* C34: after a reset that returns 0 the map is empty, nobody is logged in
\* and the permissions are P_NONE; when every write of the reset succeeded
\* the file is empty; and f_login, given that state, any name and any
\* password, does not return 0 and logs nobody in.  A login on an empty map
\* does not return 0 and leaves the session as it was.
C34_ResetEmptiesStore ==
    [][/\ (Ran("reset") /\ last'.status = 0) =>
             /\ cred_hashmap' = EmptyMap
             /\ env' = LoggedOut
             /\ last'.write_ok => (disk' = File(<<>>) /\ read_disk(disk', TRUE) = EmptyMap)
             /\ \A u \in ShellUsers, tty \in Ttys("login") :
                   \A out \in f_login([user |-> env'.user, permissions |-> env'.permissions,
                                       map |-> cred_hashmap', disk |-> disk',
                                       write_ok |-> TRUE],
                                      <<"login", u>>, tty, LibraryOn(cred_hashmap')) :
                      out.status # 0 /\ out.env.user = NULLUSER
       /\ (Ran("login") /\ cred_hashmap = EmptyMap) =>
             (last'.status # 0 /\ env' = env)
      ]_vars

\* a reset went through and every write of it succeeded
C34_Witness ==
    /\ last.op = "reset"
    /\ last.status = 0
    /\ last.auth = "true"
    /\ last.write_ok
    /\ disk = File(<<>>)
    /\ cred_hashmap = EmptyMap
    /\ env = LoggedOut

\* C35: after a chpass that returns 0, for the account it was about (the
\* session user when no name is given) and the new password typed,
\* authenticate returns true on the new map; the map has the names it had
\* and every other record is as it was.
C35_ChpassSetsPassword ==
    [][(Ran("chpass") /\ last'.status = 0) =>
         LET U == IF last'.argc = 1 THEN env.user ELSE last'.username
         IN /\ contains(cred_hashmap, U)
            /\ authenticate(cred_hashmap', U, last'.newpw) = AUTH_TRUE
            /\ DOMAIN cred_hashmap' = DOMAIN cred_hashmap
            /\ Others(cred_hashmap', {U}) = Others(cred_hashmap, {U})
      ]_vars

\* root gave a a new password: the old one is no longer a's
C35_Witness ==
    /\ last.op = "chpass"
    /\ last.status = 0
    /\ last.argc = 2
    /\ last.username = <<"a">>
    /\ last.newpw = <<"p">>
    /\ cred_hashmap[<<"a">>] = ShellEntry(<<"p">>)
    /\ cred_hashmap[ROOT] = ShellEntry(<<"p">>)

====
